---- MODULE Spec2Model ----
(***************************************************************************)
(* A model of TextComplexityAnalyzerCM: Coh-Metrix style indices for       *)
(* Spanish text computed over spaCy documents.                              *)
(*                                                                          *)
(* The module holds several state machines over disjoint groups of          *)
(* variables; each specification drives one group and keeps the others at   *)
(* their idle value.                                                        *)
(*   SpecApi    TextComplexityAnalyzer: the calculate_* methods of the      *)
(*              index families, calculate_all and predict_text_category.    *)
(*   SpecTag    the span taggers (noun phrases, verb phrases, negations,    *)
(*              connectives) and the overlap resolution they apply.         *)
(*   SpecPipe   the custom pipes called one after the other on a document.  *)
(*   SpecStages the order of the stages: the pipeline as add_pipe builds    *)
(*              it and calls it, and the stages of calculate_all.           *)
(*   SpecConc   two computations that use one analyzer at the same time.    *)
(***************************************************************************)
EXTENDS Integers, Sequences, FiniteSets, TLC

VARIABLES
    apiText,        \* the text handed to the analyzer
    apiWorkers,     \* the workers argument
    apiOp,          \* the operation of TextComplexityAnalyzer that was called
    apiPc,          \* "idle", the family being calculated, "classify" or "done"
    apiOutcome,     \* "none" while running, "returned", or the exception raised
    apiDicts,       \* the dictionaries calculated so far, in order
    apiCalls,       \* the calculate_* calls made, each with its arguments
    apiCustom,      \* the index names given with a custom classifier, <<>> without one
    apiCategory,    \* what predict_text_category returned, 0 before
    apiPredictArgs, \* the classifier, scaler and indices predict_text_category was called with
    apiFeatures,    \* what was handed to predict: the values, and the scaler they went through
    pDoc,           \* the tokens of the document sent through the pipeline
    pDelimiter,     \* how many tokens one occurrence of the paragraph delimiter covers
    pSentsToDocEnd, \* whether Span.sents of the installed spaCy runs a last sentence to the end of the document
    pRan,           \* the pipes that were called on the document, in order
    pOutcome,       \* "ok", or the exception a pipe raised
    pUpstream,      \* what the annotating pipes stored on the document, its spans and tokens
    pIndices,       \* the dictionaries of the reducer pipes, and sentences_with_content
    tagger,         \* name of the tagger that has run on the document, or "none"
    candidates,     \* candidate spans the tagger handed to filter_spans
    exposed,        \* spans the tagger stored on the document
    nlpPipeNames,   \* nlp.pipe_names: the pipes of the pipeline, in order
    nlpCalled,      \* the pipes called on the document of the current nlp(text), in order
    nlpOutcome,     \* "building", "calling", or the exception a constructor raised
    counter_function,  \* the counter_function attribute of the 'feature counter' pipe
    adjacent_sentence_analyzer, \* the sentence_analyzer attribute of the adjacent sentences analyzer
    cText,          \* the text of each of two computations on one analyzer
    cMetric,        \* the metric each computation was asked for
    cPc,            \* "start", "assigned" or "done", per computation
    cResult,        \* what each computation returned or raised
    lxDoc,          \* the token texts of a document sent to the connective taggers
    lxVia,          \* who constructs the additive tagger: the analyzer or the factory
    lxTagOutcome,   \* "none", "ok", or the exception the construction raised
    lxSpans,        \* the connective spans stored on the document, per class
    lxOutcome,      \* "none", "returned", or the exception the connective indices raised
    lxIndices,      \* the dictionary of the connective indices, <<>> before
    coPrev,         \* the earlier of two adjacent sentences
    coCur,          \* the later of the two sentences
    coWords,        \* what the word identifiers and the cohesion words tokenizer stored per sentence
    coOverlap,      \* what the overlap analyzers returned for the pair
    coAdjacent,     \* what the analyzers that walk the tokens gave for the two
    szParagraphs,   \* the numbers of characters of the paragraphs of a text
    szPipeChecks,   \* whether nlp.pipe of the installed spaCy looks at the length of its texts
    szOp,           \* the call made on the analyzer for the text
    szPc,           \* where that call stands
    szOutcome,      \* "none", "returned", or the exception the call raised
    szComputed,     \* what has been computed of the text so far, in order
    prDoc,          \* the sentences of a document, in order, each with its place and its paragraph
    prAnalyzer,     \* the sentence_analyzer attribute of the two analyzer pipes
    prAdjacent,     \* doc._.referential_cohesion_adjacent, or the exception the pipe raised
    prAll,          \* doc._.referential_cohesion_all, or the exception the pipe raised
    snTokens,       \* the tokens of the sentence, which is the whole document
    snBeforePipe,   \* count_of_words_before_main_verb the pipe wrote on the sentence
    snBeforeFunction, \* what amount_of_words_before_main_verb returned
    snVerbs,        \* sent._.verbs as the informative word tagger wrote it
    snWRDVERB,      \* WRDVERB of the word information pipe
    snVerbIncidence,\* what get_verb_incidence of the text API returned
    wcText,         \* the text handed to the getters
    wcWordCount,    \* the word_count argument, NoneValue when it is not given
    wcResults,      \* what each getter called so far returned
    dsText,         \* the text handed to calculate_descriptive_indices_for_one_text
    dsWorkers,      \* its workers argument
    dsIndices       \* what the call returned or raised

apiVars ==
    <<apiText, apiWorkers, apiOp, apiPc, apiOutcome, apiDicts, apiCalls, apiCustom,
      apiCategory, apiPredictArgs, apiFeatures>>

tagVars == <<tagger, candidates, exposed>>

pipeVars == <<pDoc, pDelimiter, pSentsToDocEnd, pRan, pOutcome, pUpstream, pIndices>>

buildVars == <<nlpPipeNames, nlpCalled, nlpOutcome>>

concVars == <<counter_function, adjacent_sentence_analyzer, cText, cMetric, cPc, cResult>>

lexVars == <<lxDoc, lxVia, lxTagOutcome, lxSpans, lxOutcome, lxIndices>>

cohVars == <<coPrev, coCur, coWords, coOverlap, coAdjacent>>

sizeVars == <<szParagraphs, szPipeChecks, szOp, szPc, szOutcome, szComputed>>

pairVars == <<prDoc, prAnalyzer, prAdjacent, prAll>>

sentVars == <<snTokens, snBeforePipe, snBeforeFunction, snVerbs, snWRDVERB, snVerbIncidence>>

countVars == <<wcText, wcWordCount, wcResults>>

descVars == <<dsText, dsWorkers, dsIndices>>

vars == <<apiVars, tagVars, pipeVars, buildVars, concVars, lexVars, cohVars, sizeVars,
      pairVars,
      sentVars,
      countVars,
      descVars>>

(***************************************************************************)
(* Bounds of the model.                                                     *)
(***************************************************************************)
\* number of tokens of a document handed to a tagger
MaxTagTokens == 4
\* pieces of a text between paragraph delimiters
MaxPieces == 2
\* sentences of one piece of a text
MaxSentences == 1
\* tokens of a document sent through the pipeline
MaxTokens == 3
\* pipes added to the pipeline of the loaded language model
MaxPipes == 5
\* tokens of a document handed to the connective taggers
MaxWords == 3
\* tokens of each of two sentences compared for overlap
MaxPairTokens == 2
\* paragraphs of a text whose length is looked at
MaxParagraphs == 2
\* sentences of a document whose pairs are analyzed
MaxDocSentences == 4

(***************************************************************************)
(* Numbers. Python floats are held as exact fractions; None is a value of   *)
(* its own. A standard deviation is held as its square (the population      *)
(* variance), which is zero exactly when the deviation is zero.             *)
(***************************************************************************)
Abs(x) == IF x < 0 THEN 0 - x ELSE x

RECURSIVE Gcd(_, _)
Gcd(a, b) == IF b = 0 THEN a ELSE Gcd(b, a % b)

\* the fraction n/d in lowest terms with a positive denominator
Frac(n, d) ==
    IF d = 1 THEN [num |-> n, den |-> 1]
    ELSE LET g == Gcd(Abs(n), Abs(d))
             sgn == IF d < 0 THEN 0 - 1 ELSE 1
         IN  [num |-> (sgn * n) \div g, den |-> (sgn * d) \div g]

FInt(n) == [num |-> n, den |-> 1]

NoneValue == [num |-> 0, den |-> 0]

\* fractions of one denominator are added over it
FAdd(a, b) ==
    IF a.den = b.den /\ a.den > 0 THEN Frac(a.num + b.num, a.den)
    ELSE Frac(a.num * b.den + b.num * a.den, a.den * b.den)

FSub(a, b) ==
    IF a.den = b.den /\ a.den > 0 THEN Frac(a.num - b.num, a.den)
    ELSE Frac(a.num * b.den - b.num * a.den, a.den * b.den)

FMul(a, b) == Frac(a.num * b.num, a.den * b.den)

FDiv(a, b) == Frac(a.num * b.den, a.den * b.num)

\* the sum of the fractions, halving the sequence
RECURSIVE FSum(_)
FSum(xs) ==
    IF xs = <<>> THEN FInt(0)
    ELSE IF Len(xs) = 1 THEN FAdd(xs[1], FInt(0))
    ELSE LET half == Len(xs) \div 2
         IN  FAdd(FSum(SubSeq(xs, 1, half)), FSum(SubSeq(xs, half + 1, Len(xs))))

RECURSIVE Concat(_)
Concat(ss) == IF ss = <<>> THEN <<>> ELSE Head(ss) \o Concat(Tail(ss))

Map(F(_), xs) == [i \in 1..Len(xs) |-> F(xs[i])]

Range(xs) == {xs[i] : i \in 1..Len(xs)}

\* the result of a call: a value, or the exception that left it
Ok(v) == [err |-> "none", val |-> v]

Raise(e) == [err |-> e, val |-> NoneValue]

\* statistics.mean(counter)
StatisticsMean(xs) ==
    IF xs = <<>> THEN Raise("StatisticsError")
    ELSE Ok(FDiv(FSum(xs), FInt(Len(xs))))

\* statistics.stdev(xs): the deviation of a sample, which divides by n - 1 and
\* needs two elements (held as the variance)
StatisticsStdev(xs) ==
    IF Len(xs) < 2 THEN Raise("StatisticsError")
    ELSE LET n == FInt(Len(xs))
             mean == FDiv(FSum(xs), n)
             sq == Map(LAMBDA x : FMul(FSub(x, mean), FSub(x, mean)), xs)
         IN  Ok(FDiv(FSum(sq), FInt(Len(xs) - 1)))

\* statistics.pstdev(counter), squared
StatisticsPstdev(xs) ==
    IF xs = <<>> THEN Raise("StatisticsError")
    ELSE LET n == FInt(Len(xs))
             mean == FDiv(FSum(xs), n)
             sq == Map(LAMBDA x : FMul(FSub(x, mean), FSub(x, mean)), xs)
         IN  Ok(FDiv(FSum(sq), n))

(***************************************************************************)
(* Texts. A text is the sequence of the pieces that lie between its         *)
(* '\n\n' delimiters; a piece is empty, only whitespace, or a sequence of   *)
(* sentences; a sentence carries its tokens and what the tagger, the parser *)
(* and the phrase taggers found in it.                                      *)
(***************************************************************************)
Tok(text, lemma, pos, alpha, letters, syl, tag, root) ==
    [text |-> text, lemma |-> lemma, pos |-> pos, is_alpha |-> alpha,
     letters |-> letters, syllables |-> syl, tag |-> tag, root |-> root]

tEl == Tok("El", "el", "DET", TRUE, 2, 1, {"Number=Sing"}, FALSE)

tPerro == Tok("perro", "perro", "NOUN", TRUE, 5, 2, {"Number=Sing"}, FALSE)

tVe == Tok("ve", "ver", "VERB", TRUE, 2, 1, {"Number=Sing", "Person=3"}, TRUE)

tDot == Tok(".", ".", "PUNCT", FALSE, 1, 0, {}, FALSE)

tY == Tok("Y", "y", "CCONJ", TRUE, 1, 1, {}, FALSE)

tElla ==
    Tok("ella", "él", "PRON", TRUE, 4, 2,
        {"Number=Sing", "Person=3", "PronType=Prs", "PRON"}, FALSE)

tNo == Tok("no", "no", "ADV", TRUE, 2, 1, {}, FALSE)

tPerros == Tok("perros", "perro", "NOUN", TRUE, 6, 2, {"Number=Plur"}, FALSE)

tGrandes == Tok("grandes", "grande", "ADJ", TRUE, 7, 2, {"Number=Plur"}, FALSE)

NoConnectives ==
    [causal |-> 0, logical |-> 0, adversative |-> 0, temporal |-> 0, additive |-> 0]

\* "El perro ve."
SentA ==
    [tokens |-> <<tEl, tPerro, tVe, tDot>>,
     noun_phrases |-> << <<1, 2>> >>,
     verb_phrases |-> << <<3, 3>> >>,
     negation_expressions |-> <<>>,
     connectives |-> NoConnectives]

\* "Y ella no ve perros grandes."
SentB ==
    [tokens |-> <<tY, tElla, tNo, tVe, tPerros, tGrandes, tDot>>,
     noun_phrases |-> << <<2, 2>>, <<5, 6>> >>,
     verb_phrases |-> << <<4, 4>> >>,
     negation_expressions |-> << <<3, 4>> >>,
     connectives |-> [NoConnectives EXCEPT !.logical = 1]]

SentenceKinds == {SentA, SentB}

EmptyPiece == [blank |-> FALSE, sents |-> <<>>]

BlankPiece == [blank |-> TRUE, sents |-> <<>>]

SeqsUpTo(S, n) == UNION {[1..k -> S] : k \in 0..n}

Pieces(maxSent) ==
    {EmptyPiece, BlankPiece}
        \cup {[blank |-> FALSE, sents |-> ss] : ss \in SeqsUpTo(SentenceKinds, maxSent) \ {<<>>}}

Texts(maxPieces, maxSent) == SeqsUpTo(Pieces(maxSent), maxPieces) \ {<<>>}

\* len(text) == 0
TextIsEmpty(text) == text = <<EmptyPiece>>

IsWhitespace(piece) == piece.sents = <<>>

\* text.strip(): whitespace and line breaks at both ends go
RECURSIVE StripLeft(_)
StripLeft(text) ==
    IF text # <<>> /\ IsWhitespace(Head(text)) THEN StripLeft(Tail(text)) ELSE text

RECURSIVE StripRight(_)
StripRight(text) ==
    IF text # <<>> /\ IsWhitespace(text[Len(text)])
    THEN StripRight(SubSeq(text, 1, Len(text) - 1))
    ELSE text

\* split_text_into_paragraphs(text): the stripped pieces of length > 0, each
\* as the sentences of the document the pipeline makes of it
split_text_into_paragraphs(text) ==
    LET pieces == StripRight(StripLeft(text))
        kept == SelectSeq(pieces, LAMBDA p : p # EmptyPiece)
    IN  Map(LAMBDA p : p.sents, kept)

\* str.lower() on the words of the sentences
Lower(text) ==
    CASE text = "El" -> "el"
      [] text = "Y" -> "y"
      [] text = "Ya" -> "ya"
      [] text = "Perro" -> "perro"
      [] OTHER -> text

is_word(token) == token.is_alpha

is_content_word(token) ==
    token.is_alpha /\ token.pos \in {"PROPN", "NOUN", "VERB", "ADJ", "ADV", "AUX"}

\* the tokens of a document
DocTokens(doc) == Concat(Map(LAMBDA sent : sent.tokens, doc))

\* split_doc_into_sentences(doc): sentences with text other than whitespace
split_doc_into_sentences(doc) ==
    SelectSeq(doc, LAMBDA sent : \E i \in 1..Len(sent.tokens) : sent.tokens[i].pos # "SPACE")

\* nlp(text): the document of the whole text
WholeDoc(text) == Concat(Map(LAMBDA p : p.sents, text))

(***************************************************************************)
(* The index classes of the text interface. Every getter sets the counter   *)
(* of the 'feature counter' pipe, sends the paragraphs of the text through  *)
(* the pipeline and folds the counts.                                       *)
(***************************************************************************)
InvalidWorkers(workers) == workers = 0 \/ workers < 0 - 1

\* a getter that forgets to look at the length of the text
CheckWorkersOnly(text, workers) ==
    IF InvalidWorkers(workers) THEN "ValueError" ELSE "none"

\* the check every getter makes before it looks at the text
CheckTextAndWorkers(text, workers) ==
    IF TextIsEmpty(text) THEN "ValueError"
    ELSE IF InvalidWorkers(workers) THEN "ValueError"
    ELSE "none"

\* the check of the two overlap helpers: the worker count is not looked at
CheckTextOnly(text, workers) ==
    IF TextIsEmpty(text) THEN "ValueError" ELSE "none"

\* sum(doc._.feature_count for doc in nlp.pipe(paragraphs)): feature_counts
\* holds what the counter gave for each paragraph
SumOverParagraphs(feature_counts) == FSum(Map(FInt, feature_counts))

get_paragraph_count_from_text(text) ==
    IF TextIsEmpty(text) THEN Raise("ValueError")
    ELSE Ok(FInt(Len(split_text_into_paragraphs(text))))

\* sentence_counter = lambda doc: sum(1 for _ in doc.sents)
sentence_counter(doc) == Len(doc)

get_sentence_count_from_text(text, workers) ==
    IF CheckTextAndWorkers(text, workers) # "none"
    THEN Raise(CheckTextAndWorkers(text, workers))
    ELSE Ok(SumOverParagraphs(Map(sentence_counter, split_text_into_paragraphs(text))))

\* word_counter = lambda doc: sum(1 for token in doc if is_word(token))
word_counter(doc) == Len(SelectSeq(DocTokens(doc), is_word))

get_word_count_from_text(text, workers) ==
    IF CheckTextAndWorkers(text, workers) # "none"
    THEN Raise(CheckTextAndWorkers(text, workers))
    ELSE Ok(SumOverParagraphs(Map(word_counter, split_text_into_paragraphs(text))))

\* StatisticsResults(): mean and std start as None
StatisticsResults == [mean |-> NoneValue, std |-> NoneValue]

\* DescriptiveIndices._get_mean_std_of_metric with statistic_type 'all': the
\* counter gathers a number, or the elements of a list, per paragraph;
\* feature_counts holds what it gave for each paragraph
get_mean_std_of_metric(text, feature_counts, workers) ==
    IF CheckTextAndWorkers(text, workers) # "none"
    THEN Raise(CheckTextAndWorkers(text, workers))
    ELSE LET counter == Concat(feature_counts)
             std == StatisticsPstdev(counter)
             mean == StatisticsMean(counter)
         IN  IF std.err # "none" THEN Raise(std.err)
             ELSE IF mean.err # "none" THEN Raise(mean.err)
             ELSE Ok([mean |-> mean.val, std |-> std.val])

\* count_length_of_paragraphs = lambda doc: sum(1 for _ in split_doc_into_sentences(doc))
\* a length of paragraphs counted in words
count_length_of_paragraphs_in_words(doc) == <<FInt(word_counter(doc))>>

count_length_of_paragraphs(doc) == <<FInt(Len(split_doc_into_sentences(doc)))>>

get_length_of_paragraphs(text, workers) ==
    get_mean_std_of_metric(text, Map(count_length_of_paragraphs, split_text_into_paragraphs(text)), workers)

\* [len([1 for token in sentence if is_word(token)]) for sentence in doc.sents]
count_length_of_sentences(doc) ==
    Map(LAMBDA sent : FInt(Len(SelectSeq(sent.tokens, is_word))), doc)

get_length_of_sentences(text, workers) ==
    get_mean_std_of_metric(text, Map(count_length_of_sentences, split_text_into_paragraphs(text)), workers)

\* [len(token) for token in doc if is_word(token)]
count_letters_per_word(doc) ==
    Map(LAMBDA token : FInt(token.letters), SelectSeq(DocTokens(doc), is_word))

get_length_of_words(text, workers) ==
    get_mean_std_of_metric(text, Map(count_letters_per_word, split_text_into_paragraphs(text)), workers)

\* [len(token._.syllables) for token in doc if is_word(token) and token._.syllables is not None]
count_syllables_per_word(doc) ==
    Map(LAMBDA token : FInt(token.syllables), SelectSeq(DocTokens(doc), is_word))

get_syllables_per_word(text, workers) ==
    get_mean_std_of_metric(text, Map(count_syllables_per_word, split_text_into_paragraphs(text)), workers)

\* self._incidence of the three incidence classes
Incidence == 1000

\* _get_word_type_incidence, _get_syntactic_pattern_density and
\* _get_connectives_incidence: (count / wc) * incidence; feature_counts holds
\* what the counter gave for each paragraph
get_incidence(text, feature_counts, word_count, workers) ==
    IF CheckTextAndWorkers(text, workers) # "none"
    THEN Raise(CheckTextAndWorkers(text, workers))
    ELSE LET wc == IF word_count # NoneValue THEN word_count
                   ELSE get_word_count_from_text(text, 0 - 1).val
             words == SumOverParagraphs(feature_counts)
         IN  IF wc.num = 0 THEN Raise("ZeroDivisionError")
             ELSE Ok(FMul(FDiv(words, wc), FInt(Incidence)))

HasTag(token, feats) == feats \subseteq token.tag

\* the getters of WordInformationIndices: word_count is not handed on
get_noun_incidence(text, word_count, workers) ==
    get_incidence(text,
        Map(LAMBDA doc : Len(SelectSeq(DocTokens(doc), LAMBDA t : is_word(t) /\ t.pos \in {"NOUN", "PROPN"})),
            split_text_into_paragraphs(text)),
        NoneValue, workers)

get_verb_incidence(text, word_count, workers) ==
    get_incidence(text,
        Map(LAMBDA doc : Len(SelectSeq(DocTokens(doc), LAMBDA t : is_word(t) /\ t.pos = "VERB")),
            split_text_into_paragraphs(text)),
        NoneValue, workers)

get_adjective_incidence(text, word_count, workers) ==
    get_incidence(text,
        Map(LAMBDA doc : Len(SelectSeq(DocTokens(doc), LAMBDA t : is_word(t) /\ t.pos = "ADJ")),
            split_text_into_paragraphs(text)),
        NoneValue, workers)

get_adverb_incidence(text, word_count, workers) ==
    get_incidence(text,
        Map(LAMBDA doc : Len(SelectSeq(DocTokens(doc), LAMBDA t : is_word(t) /\ t.pos = "ADV")),
            split_text_into_paragraphs(text)),
        NoneValue, workers)

\* is_word(token) and token.pos_ == 'PRON' in token.tag_
get_personal_pronoun_incidence(text, word_count, workers) ==
    get_incidence(text,
        Map(LAMBDA doc : Len(SelectSeq(DocTokens(doc), LAMBDA t : is_word(t) /\ t.pos = "PRON" /\ HasTag(t, {"PRON"}))),
            split_text_into_paragraphs(text)),
        NoneValue, workers)

\* the six getters by person and number
get_personal_pronoun_form_incidence(text, number, person, word_count, workers) ==
    get_incidence(text,
        Map(LAMBDA doc : Len(SelectSeq(DocTokens(doc), LAMBDA t : is_word(t) /\ t.pos = "PRON" /\ HasTag(t, {number, person}))),
            split_text_into_paragraphs(text)),
        NoneValue, workers)

PhraseCount(doc, field) == Len(Concat(Map(LAMBDA sent : sent[field], doc)))

get_noun_phrase_density(text, word_count, workers) ==
    get_incidence(text,
        Map(LAMBDA doc : PhraseCount(doc, "noun_phrases"),
            split_text_into_paragraphs(text)),
        NoneValue, workers)

get_verb_phrase_density(text, word_count, workers) ==
    get_incidence(text,
        Map(LAMBDA doc : PhraseCount(doc, "verb_phrases"),
            split_text_into_paragraphs(text)),
        NoneValue, workers)

get_negation_expressions_density(text, word_count, workers) ==
    get_incidence(text,
        Map(LAMBDA doc : PhraseCount(doc, "negation_expressions"),
            split_text_into_paragraphs(text)),
        NoneValue, workers)

ConnectiveClasses == {"causal", "logical", "adversative", "temporal", "additive"}

RECURSIVE SumInts(_)
SumInts(xs) == IF xs = <<>> THEN 0 ELSE Head(xs) + SumInts(Tail(xs))

\* len(doc._.<class>_connectives)
ConnectiveCount(doc, class) == SumInts(Map(LAMBDA sent : sent.connectives[class], doc))

get_connectives_incidence(text, class, word_count, workers) ==
    get_incidence(text,
        Map(LAMBDA doc : ConnectiveCount(doc, class),
            split_text_into_paragraphs(text)),
        NoneValue, workers)

\* a counter of all connectives that leaves the additive ones out
all_connectives_without_additive(text, word_count, workers) ==
    get_incidence(text,
        Map(LAMBDA doc : ConnectiveCount(doc, "causal") + ConnectiveCount(doc, "logical")
                        + ConnectiveCount(doc, "adversative")
                        + ConnectiveCount(doc, "temporal"),
            split_text_into_paragraphs(text)),
        NoneValue, workers)

get_all_connectives_incidence(text, word_count, workers) ==
    get_incidence(text,
        Map(LAMBDA doc : ConnectiveCount(doc, "causal") + ConnectiveCount(doc, "logical")
                        + ConnectiveCount(doc, "adversative")
                        + ConnectiveCount(doc, "temporal")
                        + ConnectiveCount(doc, "additive"),
            split_text_into_paragraphs(text)),
        NoneValue, workers)

\* sum(1 for token in nph if token.pos_ == 'ADJ') for each noun phrase
modifiers_counter(doc) ==
    Concat(Map(LAMBDA sent :
                   Map(LAMBDA nph :
                           FInt(Cardinality({i \in nph[1]..nph[2] : sent.tokens[i].pos = "ADJ"})),
                       sent.noun_phrases),
               doc))

\* SyntacticComplexityIndices: statistics.mean over what the paragraphs gave
get_mean_of_list_counter(text, feature_counts, workers) ==
    IF CheckTextAndWorkers(text, workers) # "none"
    THEN Raise(CheckTextAndWorkers(text, workers))
    ELSE StatisticsMean(Concat(feature_counts))

get_mean_number_of_modifiers_per_noun_phrase(text, workers) ==
    get_mean_of_list_counter(text, Map(modifiers_counter, split_text_into_paragraphs(text)), workers)

IsMainVerb(token) == token.pos \in {"VERB", "AUX"} /\ token.root

RECURSIVE LeftWords(_)
LeftWords(tokens) ==
    IF tokens = <<>> \/ IsMainVerb(Head(tokens)) THEN 0
    ELSE (IF is_word(Head(tokens)) THEN 1 ELSE 0) + LeftWords(Tail(tokens))

amount_of_words_before_main_verb(sentence) == LeftWords(sentence.tokens)

words_before_main_verb_counter(doc) ==
    Map(LAMBDA sent : FInt(amount_of_words_before_main_verb(sent)),
        split_doc_into_sentences(doc))

get_mean_number_of_words_before_main_verb(text, workers) ==
    get_mean_of_list_counter(text, Map(words_before_main_verb_counter, split_text_into_paragraphs(text)), workers)

\* LexicalDiversityIndices: 0 if len(tokens) == 0 else len(set(tokens)) / len(tokens)
\* the ratio with no look at the number of tokens
type_token_ratio_without_guard(text, feature_counts, workers) ==
    IF CheckTextAndWorkers(text, workers) # "none"
    THEN Raise(CheckTextAndWorkers(text, workers))
    ELSE LET tokens == Concat(feature_counts)
         IN  IF Len(tokens) = 0 THEN Raise("ZeroDivisionError")
             ELSE Ok(Frac(Cardinality(Range(tokens)), Len(tokens)))

\* feature_counts holds the list of lowered words of each paragraph
type_token_ratio(text, feature_counts, workers) ==
    IF CheckTextAndWorkers(text, workers) # "none"
    THEN Raise(CheckTextAndWorkers(text, workers))
    ELSE LET tokens == Concat(feature_counts)
         IN  IF Len(tokens) = 0 THEN Ok(FInt(0))
             ELSE Ok(Frac(Cardinality(Range(tokens)), Len(tokens)))

get_type_token_ratio_between_all_words(text, workers) ==
    type_token_ratio(text,
        Map(LAMBDA doc : Map(LAMBDA t : Lower(t.text), SelectSeq(DocTokens(doc), is_word)),
            split_text_into_paragraphs(text)),
        workers)

get_type_token_ratio_of_content_words(text, workers) ==
    type_token_ratio(text,
        Map(LAMBDA doc : Map(LAMBDA t : Lower(t.text), SelectSeq(DocTokens(doc), is_content_word)),
            split_text_into_paragraphs(text)),
        workers)

\* ReadabilityIndices of the text interface; the language is 'es' and the text
\* is never None. Without the two means it asks DescriptiveIndices for
\* get_mean_of_syllables_per_word, a method that class does not have.
calculate_fernandez_huertas_grade_level(text, workers, mean_words_per_sentence, mean_syllables_per_word) ==
    IF TextIsEmpty(text) THEN Raise("ValueError")
    ELSE IF InvalidWorkers(workers) THEN Raise("ValueError")
    ELSE IF mean_syllables_per_word = NoneValue \/ mean_words_per_sentence = NoneValue
    THEN Raise("AttributeError")
    ELSE Ok(FSub(FSub(Frac(20684, 100), FMul(Frac(6, 10), mean_syllables_per_word)),
                 FMul(Frac(102, 100), mean_words_per_sentence)))

(***************************************************************************)
(* Referential cohesion of the text interface: the whole text is one        *)
(* document; the analyzer pipes pair its non-empty sentences.               *)
(***************************************************************************)
IsNoun(t) == is_word(t) /\ t.pos = "NOUN"

IsNounOrProperNoun(t) == is_word(t) /\ t.pos \in {"NOUN", "PROPN"}

IsPronoun(t) == is_word(t) /\ t.pos = "PRON"

IsPersonalPronoun(t) == is_word(t) /\ HasTag(t, {"PronType=Prs"})

\* {token.text.lower() ...} and {token.lemma_.lower() ...} of the chosen tokens
TextLower(tokens) == {Lower(tokens[i].text) : i \in 1..Len(tokens)}

LemmaLower(tokens) == {Lower(tokens[i].lemma) : i \in 1..Len(tokens)}

analyze_noun_overlap(prev, cur) ==
    IF TextLower(SelectSeq(cur.tokens, IsNoun)) \cap TextLower(SelectSeq(prev.tokens, IsNoun)) # {}
    THEN FInt(1) ELSE FInt(0)

analyze_argument_overlap(prev, cur) ==
    IF \/ LemmaLower(SelectSeq(cur.tokens, IsNoun)) \cap LemmaLower(SelectSeq(prev.tokens, IsNoun)) # {}
       \/ TextLower(SelectSeq(cur.tokens, IsPersonalPronoun))
              \cap TextLower(SelectSeq(prev.tokens, IsPersonalPronoun)) # {}
    THEN FInt(1) ELSE FInt(0)

analyze_stem_overlap(prev, cur) ==
    IF LemmaLower(SelectSeq(cur.tokens, IsNounOrProperNoun))
           \cap LemmaLower(SelectSeq(prev.tokens, is_content_word)) # {}
    THEN FInt(1) ELSE FInt(0)

analyze_content_word_overlap(prev, cur) ==
    LET prevWords == SelectSeq(prev.tokens, is_content_word)
        curWords == SelectSeq(cur.tokens, is_content_word)
        total_tokens == Len(prevWords) + Len(curWords)
        seen == {Lower(prevWords[i].text) : i \in 1..Len(prevWords)}
        matches == 2 * Len(SelectSeq(curWords, LAMBDA t : Lower(t.text) \in seen))
    IN  IF total_tokens = 0 THEN FInt(0) ELSE Frac(matches, total_tokens)

analyze_anaphore_overlap(prev, cur) ==
    IF TextLower(SelectSeq(cur.tokens, IsPronoun))
           \cap TextLower(SelectSeq(prev.tokens, IsPronoun)) # {}
    THEN FInt(1) ELSE FInt(0)

\* zip(prev, cur) of the tee'd sentence iterator
AdjacentPairs(sentences) ==
    [i \in 1..(Len(sentences) - 1) |-> <<sentences[i], sentences[i + 1]>>]

\* permutations(sentences, 2): the pairs in both orders
AllPairs_BothOrders(sentences) ==
    LET n == Len(sentences)
        pairs == [k \in 1..(n * n) |->
                     <<sentences[((k - 1) \div n) + 1], sentences[((k - 1) % n) + 1]>>]
    IN  SelectSeq(pairs, LAMBDA pair : pair[1] # pair[2])

\* combinations(sentences, 2)
RECURSIVE AllPairs(_)
AllPairs(sentences) ==
    IF Len(sentences) < 2 THEN <<>>
    ELSE [i \in 1..(Len(sentences) - 1) |-> <<sentences[1], sentences[i + 1]>>]
             \o AllPairs(Tail(sentences))

\* self.sentence_analyzer(prev, cur, self.language) of the analyzer pipes: the
\* function the pipe holds, by its name
SentenceAnalyzer(function, prev, cur) ==
    CASE function = "analyze_noun_overlap" -> analyze_noun_overlap(prev, cur)
      [] function = "analyze_argument_overlap" -> analyze_argument_overlap(prev, cur)
      [] function = "analyze_stem_overlap" -> analyze_stem_overlap(prev, cur)
      [] function = "analyze_content_word_overlap" -> analyze_content_word_overlap(prev, cur)
      [] function = "analyze_anaphore_overlap" -> analyze_anaphore_overlap(prev, cur)
      [] function = "places" -> <<prev.place, cur.place>>

ReferentialCohesionAdjacentSentencesAnalyzer(doc, sentence_analyzer) ==
    Map(LAMBDA pair : SentenceAnalyzer(sentence_analyzer, pair[1], pair[2]),
        AdjacentPairs(split_doc_into_sentences(doc)))

\* the analyzer over permutations in place of combinations
AllSentencesAnalyzer_BothOrders(doc, sentence_analyzer) ==
    Map(LAMBDA pair : SentenceAnalyzer(sentence_analyzer, pair[1], pair[2]),
        AllPairs_BothOrders(split_doc_into_sentences(doc)))

ReferentialCohesionAllSentencesAnalyzer(doc, sentence_analyzer) ==
    Map(LAMBDA pair : SentenceAnalyzer(sentence_analyzer, pair[1], pair[2]),
        AllPairs(split_doc_into_sentences(doc)))

\* statistics of the overlaps with no look at their number
OverlapStatistics_NoEarlyReturn(overlaps, statistic_type) ==
    [mean |-> IF overlaps = <<>> THEN FInt(0) ELSE StatisticsMean(overlaps).val,
     std |-> IF overlaps = <<>> THEN FInt(0) ELSE StatisticsPstdev(overlaps).val]

\* the unfilled container goes back when the document has no pair
OverlapStatistics(overlaps, statistic_type) ==
    IF Len(overlaps) = 0 THEN StatisticsResults
    ELSE [mean |-> IF statistic_type \in {"mean", "all"}
                   THEN StatisticsMean(overlaps).val ELSE NoneValue,
          std |-> IF statistic_type \in {"std", "all"}
                  THEN StatisticsPstdev(overlaps).val ELSE NoneValue]

calculate_overlap_for_adjacent_sentences(text, sentence_analyzer, statistic_type, workers) ==
    IF CheckTextOnly(text, workers) # "none" THEN Raise(CheckTextOnly(text, workers))
    ELSE Ok(OverlapStatistics(
                ReferentialCohesionAdjacentSentencesAnalyzer(WholeDoc(text), sentence_analyzer),
                statistic_type))

calculate_overlap_for_all_sentences(text, sentence_analyzer, statistic_type, workers) ==
    IF CheckTextOnly(text, workers) # "none" THEN Raise(CheckTextOnly(text, workers))
    ELSE Ok(OverlapStatistics(
                ReferentialCohesionAllSentencesAnalyzer(WholeDoc(text), sentence_analyzer),
                statistic_type))

(***************************************************************************)
(* TextComplexityAnalyzer: one dictionary of indices per family.            *)
(***************************************************************************)
RECURSIVE FirstError(_)
FirstError(calls) ==
    IF calls = <<>> THEN "none"
    ELSE IF Head(calls).err # "none" THEN Head(calls).err
    ELSE FirstError(Tail(calls))

\* indices = {}; indices[key] = value, in the order of the entries
DictOf(entries) ==
    [k \in {entries[i][1] : i \in 1..Len(entries)} |->
        LET last == CHOOSE i \in 1..Len(entries) :
                        /\ entries[i][1] = k
                        /\ \A j \in (i + 1)..Len(entries) : entries[j][1] # k
        IN  entries[last][2]]

\* the dictionary, unless one of the calls that fill it raised
Indices(calls, entries) ==
    IF FirstError(calls) # "none" THEN Raise(FirstError(calls)) ELSE Ok(DictOf(entries))

calculate_descriptive_indices_for_one_text(text, workers) ==
    LET paragraph_count == get_paragraph_count_from_text(text)
        sentence_count == get_sentence_count_from_text(text, workers)
        word_count == get_word_count_from_text(text, workers)
        length_of_paragraph == get_length_of_paragraphs(text, workers)
        length_of_sentences == get_length_of_sentences(text, workers)
        syllables_per_word == get_syllables_per_word(text, workers)
        length_of_words == get_length_of_words(text, workers)
    IN  Indices(<<paragraph_count, sentence_count, word_count, length_of_paragraph,
                  length_of_sentences, syllables_per_word, length_of_words>>,
                <<<<"DESPC", paragraph_count.val>>,
                  <<"DESSC", sentence_count.val>>,
                  <<"DESWC", word_count.val>>,
                  <<"DESPL", length_of_paragraph.val.mean>>,
                  <<"DESPLd", length_of_paragraph.val.std>>,
                  <<"DESSL", length_of_sentences.val.mean>>,
                  <<"DESSLd", length_of_sentences.val.std>>,
                  <<"DESWLsy", syllables_per_word.val.mean>>,
                  <<"DESWLsyd", syllables_per_word.val.std>>,
                  <<"DESWLlt", length_of_words.val.mean>>,
                  <<"DESWLltd", length_of_words.val.std>>>>)

calculate_word_information_indices_for_one_text(text, workers, word_count) ==
    LET noun == get_noun_incidence(text, word_count, workers)
        verb == get_verb_incidence(text, word_count, workers)
        adj == get_adjective_incidence(text, word_count, workers)
        adv == get_adverb_incidence(text, word_count, workers)
        pro == get_personal_pronoun_incidence(text, word_count, workers)
        form(number, person) ==
            get_personal_pronoun_form_incidence(text, number, person, word_count, workers)
        p1s == form("Number=Sing", "Person=1")
        p1p == form("Number=Plur", "Person=1")
        p2s == form("Number=Sing", "Person=2")
        p2p == form("Number=Plur", "Person=2")
        p3s == form("Number=Sing", "Person=3")
        p3p == form("Number=Plur", "Person=3")
    IN  Indices(<<noun, verb, adj, adv, pro, p1s, p1p, p2s, p2p, p3s, p3p>>,
                <<<<"WRDNOUN", noun.val>>, <<"WRDVERB", verb.val>>, <<"WRDADJ", adj.val>>,
                  <<"WRDADV", adv.val>>, <<"WRDPRO", pro.val>>,
                  <<"WRDPRP1s", p1s.val>>, <<"WRDPRP1p", p1p.val>>,
                  <<"WRDPRP2s", p2s.val>>, <<"WRDPRP2p", p2p.val>>,
                  <<"WRDPRP3s", p3s.val>>, <<"WRDPRP3p", p3p.val>>>>)

calculate_syntactic_pattern_density_indices_for_one_text(text, workers, word_count) ==
    LET np == get_noun_phrase_density(text, word_count, workers)
        vp == get_verb_phrase_density(text, word_count, workers)
        neg == get_negation_expressions_density(text, word_count, workers)
    IN  Indices(<<np, vp, neg>>,
                <<<<"DRNP", np.val>>, <<"DRVP", vp.val>>, <<"DRNEG", neg.val>>>>)

calculate_syntactic_complexity_indices_for_one_text(text, workers) ==
    LET np == get_mean_number_of_modifiers_per_noun_phrase(text, workers)
        le == get_mean_number_of_words_before_main_verb(text, workers)
    IN  Indices(<<np, le>>, <<<<"SYNNP", np.val>>, <<"SYNLE", le.val>>>>)

calculate_connective_indices_for_one_text(text, workers, word_count) ==
    LET all == get_all_connectives_incidence(text, word_count, workers)
        caus == get_connectives_incidence(text, "causal", word_count, workers)
        logic == get_connectives_incidence(text, "logical", word_count, workers)
        adc == get_connectives_incidence(text, "adversative", word_count, workers)
        temp == get_connectives_incidence(text, "temporal", word_count, workers)
        add == get_connectives_incidence(text, "additive", word_count, workers)
    IN  Indices(<<all, caus, logic, adc, temp, add>>,
                <<<<"CNCAll", all.val>>, <<"CNCCaus", caus.val>>, <<"CNCLogic", logic.val>>,
                  <<"CNCADC", adc.val>>, <<"CNCTemp", temp.val>>, <<"CNCAdd", add.val>>>>)

\* a lexical diversity reducer that writes one of its values under a key of
\* the descriptive family
lexical_diversity_with_foreign_key(text, workers) ==
    LET a == get_type_token_ratio_between_all_words(text, workers)
        cw == get_type_token_ratio_of_content_words(text, workers)
    IN  Indices(<<a, cw>>, <<<<"LDTTRa", a.val>>, <<"DESWC", cw.val>>>>)

calculate_lexical_diversity_indices_for_one_text(text, workers) ==
    LET a == get_type_token_ratio_between_all_words(text, workers)
        cw == get_type_token_ratio_of_content_words(text, workers)
    IN  Indices(<<a, cw>>, <<<<"LDTTRa", a.val>>, <<"LDTTRcw", cw.val>>>>)

calculate_readability_indices_for_one_text(text, workers, mean_syllables_per_word, mean_words_per_sentence) ==
    LET fh == calculate_fernandez_huertas_grade_level(
                  text, workers, mean_words_per_sentence, mean_syllables_per_word)
    IN  Indices(<<fh>>, <<<<"RDFHGL", fh.val>>>>)

calculate_referential_cohesion_indices_for_one_text(text, workers) ==
    LET adj(analyzer, type) ==
            calculate_overlap_for_adjacent_sentences(text, analyzer, type, workers)
        all(analyzer, type) ==
            calculate_overlap_for_all_sentences(text, analyzer, type, workers)
        no1 == adj("analyze_noun_overlap", "mean")
        noa == all("analyze_noun_overlap", "mean")
        ao1 == adj("analyze_argument_overlap", "mean")
        aoa == all("analyze_argument_overlap", "mean")
        so1 == adj("analyze_stem_overlap", "mean")
        soa == all("analyze_stem_overlap", "mean")
        cwo1 == adj("analyze_content_word_overlap", "all")
        cwoa == all("analyze_content_word_overlap", "all")
        anp1 == adj("analyze_anaphore_overlap", "all")
        anpa == all("analyze_anaphore_overlap", "all")
    IN  Indices(<<no1, noa, ao1, aoa, so1, soa, cwo1, cwoa, anp1, anpa>>,
                <<<<"CRFNO1", no1.val.mean>>, <<"CRFNOa", noa.val.mean>>,
                  <<"CRFAO1", ao1.val.mean>>, <<"CRFAOa", aoa.val.mean>>,
                  <<"CRFSO1", so1.val.mean>>, <<"CRFSOa", soa.val.mean>>,
                  <<"CRFCWO1", cwo1.val.mean>>, <<"CRFCWO1d", cwo1.val.std>>,
                  <<"CRFCWOa", cwoa.val.mean>>, <<"CRFCWOad", cwoa.val.std>>,
                  <<"CRFANP1", anp1.val.mean>>, <<"CRFANPa", anpa.val.mean>>>>)

\* self._indices: the names the default classifier was trained with
classifier_indices ==
    <<"CNCADC", "CNCAdd", "CNCAll", "CNCCaus", "CNCLogic", "CNCTemp", "CRFANP1", "CRFANPa",
      "CRFAO1", "CRFAOa", "CRFCWO1", "CRFCWO1d", "CRFCWOa", "CRFCWOad", "CRFNO1", "CRFNOa",
      "CRFSO1", "CRFSOa", "DESPC", "DESPL", "DESPLd", "DESSC", "DESSL", "DESSLd", "DESWC",
      "DESWLlt", "DESWLltd", "DESWLsy", "DESWLsyd", "DRNEG", "DRNP", "DRVP", "LDTTRa",
      "LDTTRcw", "RDFHGL", "SYNLE", "SYNNP", "WRDADJ", "WRDADV", "WRDNOUN", "WRDPRO",
      "WRDPRP1p", "WRDPRP1s", "WRDPRP2p", "WRDPRP2s", "WRDPRP3p", "WRDPRP3s", "WRDVERB">>

(***************************************************************************)
(* The calls of TextComplexityAnalyzer as steps: a call of one family       *)
(* calculates that family with the defaults of its arguments;               *)
(* calculate_all_indices_for_one_text calculates the eight families one     *)
(* after the other; predict_text_category runs all of them, merges the      *)
(* dictionaries and asks the classifier.                                    *)
(***************************************************************************)
Families ==
    <<"descriptive", "word_information", "syntactic_pattern", "syntactic_complexity",
      "connective", "lexical_diversity", "readability", "referential_cohesion">>

FamilyOps == Range(Families)

Workers == {0 - 2, 0 - 1, 0, 1}

\* the categories a classifier can answer
Categories == {1, 2}

NoArgs ==
    [word_count |-> NoneValue, mean_words_per_sentence |-> NoneValue,
     mean_syllables_per_word |-> NoneValue]

\* lines 291 to 293: what calculate_all takes out of the descriptive dictionary
ArgsFromDescriptive(descriptive) ==
    [word_count |-> descriptive["DESWC"],
     mean_words_per_sentence |-> descriptive["DESSL"],
     mean_syllables_per_word |-> descriptive["DESWLsy"]]

\* the arguments each calculate_* call is written with
ArgsOfCall(family, locals) ==
    CASE family \in {"word_information", "syntactic_pattern", "connective"} ->
            [NoArgs EXCEPT !.word_count = locals.word_count]
      [] family = "readability" ->
            [NoArgs EXCEPT !.mean_words_per_sentence = locals.mean_words_per_sentence,
                           !.mean_syllables_per_word = locals.mean_syllables_per_word]
      [] OTHER -> NoArgs

Calculate(family, text, workers, args) ==
    CASE family = "descriptive" ->
            calculate_descriptive_indices_for_one_text(text, workers)
      [] family = "word_information" ->
            calculate_word_information_indices_for_one_text(text, workers, args.word_count)
      [] family = "syntactic_pattern" ->
            calculate_syntactic_pattern_density_indices_for_one_text(
                text, workers, args.word_count)
      [] family = "syntactic_complexity" ->
            calculate_syntactic_complexity_indices_for_one_text(text, workers)
      [] family = "connective" ->
            calculate_connective_indices_for_one_text(text, workers, args.word_count)
      [] family = "lexical_diversity" ->
            calculate_lexical_diversity_indices_for_one_text(text, workers)
      [] family = "readability" ->
            calculate_readability_indices_for_one_text(
                text, workers, args.mean_syllables_per_word, args.mean_words_per_sentence)
      [] family = "referential_cohesion" ->
            calculate_referential_cohesion_indices_for_one_text(text, workers)

\* {**a, **b}: the later dictionary wins a shared key
RECURSIVE MergeDicts(_)
MergeDicts(dicts) ==
    IF dicts = <<>> THEN <<>>
    ELSE LET front == MergeDicts(SubSeq(dicts, 1, Len(dicts) - 1))
             last == dicts[Len(dicts)]
         IN  [k \in DOMAIN front \cup DOMAIN last |->
                 IF k \in DOMAIN last THEN last[k] ELSE front[k]]

\* no classifier, scaler or indices given
NoPredictArgs == [classifier |-> "None", scaler |-> "None", indices |-> <<>>]

\* nothing handed to a classifier yet
NoFeatures == [values |-> <<>>, scaled |-> "none"]

ApiIdle ==
    /\ apiText = <<>> /\ apiWorkers = 0 /\ apiOp = "none" /\ apiPc = "idle"
    /\ apiOutcome = "none" /\ apiDicts = <<>> /\ apiCalls = <<>>
    /\ apiCustom = <<>> /\ apiCategory = 0
    /\ apiPredictArgs = NoPredictArgs /\ apiFeatures = NoFeatures

ApiInit ==
    /\ apiText \in Texts(MaxPieces, MaxSentences)
    /\ apiWorkers \in Workers
    /\ apiOp = "none" /\ apiPc = "idle" /\ apiOutcome = "none"
    /\ apiDicts = <<>> /\ apiCalls = <<>>
    /\ apiCustom = <<>> /\ apiCategory = 0
    /\ apiPredictArgs = NoPredictArgs /\ apiFeatures = NoFeatures

ApiRaise(e) ==
    /\ apiPc' = "done"
    /\ apiOutcome' = e
    /\ apiDicts' = <<>>

\* a calculate_<family>_indices_for_one_text(text, workers) call from outside
CallFamily(family) ==
    /\ apiPc = "idle"
    /\ apiOp' = family
    /\ apiPc' = family
    /\ UNCHANGED <<apiText, apiWorkers, apiOutcome, apiDicts, apiCalls, apiCustom,
                   apiCategory, apiPredictArgs, apiFeatures, tagVars, pipeVars, buildVars, concVars, lexVars, cohVars, sizeVars, pairVars, sentVars, countVars, descVars>>

\* calculate_all_indices_for_one_text(text, workers), up to its first stage
CallAll ==
    /\ apiPc = "idle"
    /\ apiOp' = "all"
    /\ IF InvalidWorkers(apiWorkers)
       THEN ApiRaise("ValueError")
       ELSE apiPc' = "descriptive" /\ UNCHANGED <<apiOutcome, apiDicts>>
    /\ UNCHANGED <<apiText, apiWorkers, apiCalls, apiCustom, apiCategory, apiPredictArgs,
                   apiFeatures, tagVars, pipeVars, buildVars, concVars, lexVars, cohVars, sizeVars, pairVars, sentVars, countVars, descVars>>

CustomIndices == {<<"DESWC", "DESSL">>, <<"DESWC", "DESXX">>}

\* the checks with the one of the scaler left out
CheckPredictArguments_NoScalerCheck(workers, classifier, scaler, indices) ==
    IF InvalidWorkers(workers) THEN "ValueError"
    ELSE IF classifier # "None" /\ classifier = "no predict" THEN "ValueError"
    ELSE IF classifier # "None" /\ indices = <<>> THEN "ValueError"
    ELSE "none"

\* the four checks predict_text_category makes before it calculates anything;
\* hasattr(classifier, 'predict') fails for "no predict", hasattr(scaler,
\* 'transform') for "no transform"
CheckPredictArguments(workers, classifier, scaler, indices) ==
    IF InvalidWorkers(workers) THEN "ValueError"
    ELSE IF classifier # "None" /\ classifier = "no predict" THEN "ValueError"
    ELSE IF classifier # "None" /\ indices = <<>> THEN "ValueError"
    ELSE IF classifier # "None" /\ scaler # "None" /\ scaler = "no transform" THEN "ValueError"
    ELSE "none"

\* the arguments predict_text_category is called with: every combination that
\* is turned away, the default classifier with and without a scaler given, and
\* a custom classifier with index names, with and without a scaler
PredictArguments ==
    {args \in [classifier : {"None", "classifier", "no predict"},
               scaler : {"None", "scaler", "no transform"},
               indices : {<<>>} \cup CustomIndices] :
        \/ args.classifier = "no predict"
        \/ args.classifier = "classifier"
               /\ (args.indices = <<>> \/ args.scaler = "no transform")
        \/ args.classifier = "None" /\ args.indices = <<>> /\ args.scaler # "no transform"
        \/ args.classifier = "classifier"
               /\ (args.scaler = "None" \/ args.indices = <<"DESWC", "DESSL">>)}

\* predict_text_category(text, workers, classifier, scaler, indices), up to
\* its call of calculate_all_indices_for_one_text; indices = None is <<>>
CallPredict ==
    /\ apiPc = "idle"
    /\ apiOp' = "predict"
    /\ \E args \in PredictArguments :
       LET classifier == args.classifier
           scaler == args.scaler
           indices == args.indices
       IN
        /\ apiPredictArgs' = args
        /\ IF CheckPredictArguments(apiWorkers, classifier, scaler, indices) # "none"
           THEN /\ ApiRaise(CheckPredictArguments(apiWorkers, classifier, scaler, indices))
                /\ UNCHANGED apiCustom
           ELSE /\ apiPc' = "descriptive"
                /\ apiCustom' = IF classifier = "None" THEN <<>> ELSE indices
                /\ UNCHANGED <<apiOutcome, apiDicts>>
    /\ UNCHANGED <<apiText, apiWorkers, apiCalls, apiCategory, apiFeatures, tagVars, pipeVars, buildVars, concVars, lexVars, cohVars, sizeVars, pairVars, sentVars, countVars, descVars>>

NextFamily(family) ==
    LET i == CHOOSE j \in 1..Len(Families) : Families[j] = family
    IN  IF i = Len(Families) THEN "return" ELSE Families[i + 1]

\* one calculate_* call: alone, or as a stage of calculate_all
Stage(family) ==
    /\ apiPc = family
    /\ LET args == IF apiOp = family \/ family = "descriptive" THEN NoArgs
                   ELSE ArgsOfCall(family, ArgsFromDescriptive(apiDicts[1]))
           res == Calculate(family, apiText, apiWorkers, args)
       IN  /\ apiCalls' = Append(apiCalls, [family |-> family, args |-> args])
           /\ IF res.err # "none" THEN ApiRaise(res.err)
              ELSE /\ apiDicts' = Append(apiDicts, res.val)
                   /\ IF apiOp = family \/ (apiOp = "all" /\ NextFamily(family) = "return")
                      THEN apiPc' = "done" /\ apiOutcome' = "returned"
                      ELSE /\ apiPc' = IF NextFamily(family) = "return" THEN "classify"
                                       ELSE NextFamily(family)
                           /\ UNCHANGED apiOutcome
    /\ UNCHANGED <<apiText, apiWorkers, apiOp, apiCustom, apiCategory, apiPredictArgs,
                   apiFeatures, tagVars, pipeVars, buildVars, concVars, lexVars, cohVars, sizeVars, pairVars, sentVars, countVars, descVars>>

StageDescriptive == Stage("descriptive")

StageWordInformation == Stage("word_information")

StageSyntacticPattern == Stage("syntactic_pattern")

StageSyntacticComplexity == Stage("syntactic_complexity")

StageConnective == Stage("connective")

StageLexicalDiversity == Stage("lexical_diversity")

StageReadability == Stage("readability")

StageReferentialCohesion == Stage("referential_cohesion")

\* [[metrics[key] for key in indices]]
indices_values(metrics, keys) == [k \in 1..Len(keys) |-> metrics[keys[k]]]

\* the values with no scaler applied, whatever was given
PredictInput_Unscaled(classifier, scaler, values) == [values |-> values, scaled |-> "none"]

\* what predict is called with: self._scaler.transform(indices_values) for the
\* default classifier, indices_values or scaler.transform(indices_values) for
\* a custom one
PredictInput(classifier, scaler, values) ==
    IF classifier = "None" THEN [values |-> values, scaled |-> "default"]
    ELSE IF scaler = "None" THEN [values |-> values, scaled |-> "none"]
    ELSE [values |-> values, scaled |-> "custom"]

\* the end of predict_text_category: merge, pick the values, predict
Classify ==
    /\ apiPc = "classify"
    /\ LET metrics == MergeDicts(apiDicts)
           keys == IF apiCustom = <<>> THEN classifier_indices ELSE apiCustom
       IN  IF \E i \in 1..Len(keys) : keys[i] \notin DOMAIN metrics
           THEN ApiRaise("KeyError") /\ UNCHANGED <<apiCategory, apiFeatures>>
           ELSE /\ apiPc' = "done"
                /\ apiOutcome' = "returned"
                /\ apiFeatures' = PredictInput(apiPredictArgs.classifier, apiPredictArgs.scaler,
                                               indices_values(metrics, keys))
                /\ apiCategory' \in Categories
                /\ UNCHANGED apiDicts
    /\ UNCHANGED <<apiText, apiWorkers, apiOp, apiCalls, apiCustom, apiPredictArgs, tagVars, pipeVars, buildVars, concVars, lexVars, cohVars, sizeVars, pairVars, sentVars, countVars, descVars>>

ApiNext ==
    \/ \E family \in FamilyOps : CallFamily(family)
    \/ CallAll
    \/ CallPredict
    \/ StageDescriptive
    \/ StageWordInformation
    \/ StageSyntacticPattern
    \/ StageSyntacticComplexity
    \/ StageConnective
    \/ StageLexicalDiversity
    \/ StageReadability
    \/ StageReferentialCohesion
    \/ Classify

(***************************************************************************)
(* Spans: doc[start:end], token indices start .. end-1.                     *)
(***************************************************************************)
Spans(n) == {sp \in [start : 0..n, end : 0..n] : sp.start < sp.end}

SpanLen(sp) == sp.end - sp.start

SpanTokens(sp) == sp.start .. (sp.end - 1)

\* spacy.util.filter_spans sorts by (length, -start), reverse=True.
SortsBefore(a, b) ==
    \/ SpanLen(a) > SpanLen(b)
    \/ SpanLen(a) = SpanLen(b) /\ a.start < b.start

\* the span that comes first in the sorted order
FirstSorted(S) == CHOOSE a \in S : \A b \in S \ {a} : SortsBefore(a, b)

\* the acceptance test of filter_spans on one span
Accepts(sp, seen) == sp.start \notin seen /\ (sp.end - 1) \notin seen

RECURSIVE FilterLoop(_, _, _)
FilterLoop(rest, result, seen) ==
    IF rest = {} THEN result
    ELSE LET sp == FirstSorted(rest)
         IN  IF Accepts(sp, seen)
             THEN FilterLoop(rest \ {sp}, result \cup {sp}, seen \cup SpanTokens(sp))
             ELSE FilterLoop(rest \ {sp}, result, seen)

\* filter_spans(spans): longest first, ties by earliest start, no shared token
FilterSpans(S) == FilterLoop(S, {}, {})

(***************************************************************************)
(* The taggers. Each hands its candidates to filter_spans and stores the    *)
(* result on the document.                                                  *)
(***************************************************************************)
NoFilter(cands) == cands

NounPhraseTagger(cands) == FilterSpans(cands)

VerbPhraseTagger(cands) == FilterSpans(cands)

NegativeExpressionTagger(cands) == FilterSpans(cands)

LogicalConnectivesTagger(cands) == FilterSpans(cands)

\* a resolution that keeps the span that starts first, whatever its length
StartsBefore(a, b) ==
    \/ a.start < b.start
    \/ a.start = b.start /\ SpanLen(a) > SpanLen(b)

RECURSIVE EarliestLoop(_, _, _)
EarliestLoop(rest, result, seen) ==
    IF rest = {} THEN result
    ELSE LET sp == CHOOSE a \in rest : \A b \in rest \ {a} : StartsBefore(a, b)
         IN  IF Accepts(sp, seen)
             THEN EarliestLoop(rest \ {sp}, result \cup {sp}, seen \cup SpanTokens(sp))
             ELSE EarliestLoop(rest \ {sp}, result, seen)

KeepEarliest(cands) == EarliestLoop(cands, {}, {})

AdditiveConnectivesTagger(cands) == FilterSpans(cands)

CausalConnectivesTagger(cands) == FilterSpans(cands)

TemporalConnectivesTagger(cands) == FilterSpans(cands)

TaggerNames ==
    {"noun phrase tagger", "verb phrase tagger", "negative expression tagger",
     "logical_connectives_tagger", "additive connective tagger",
     "causal connective tagger", "temporal connective tagger"}

RunTagger(name, cands) ==
    CASE name = "noun phrase tagger" -> NounPhraseTagger(cands)
      [] name = "verb phrase tagger" -> VerbPhraseTagger(cands)
      [] name = "negative expression tagger" -> NegativeExpressionTagger(cands)
      [] name = "logical_connectives_tagger" -> LogicalConnectivesTagger(cands)
      [] name = "additive connective tagger" -> AdditiveConnectivesTagger(cands)
      [] name = "causal connective tagger" -> CausalConnectivesTagger(cands)
      [] name = "temporal connective tagger" -> TemporalConnectivesTagger(cands)

TagIdle == tagger = "none" /\ candidates = {} /\ exposed = {}

\* Candidates are matcher results, or noun chunks with the span between the
\* edges of their root: any set of spans of the document can come out.
TagInit ==
    /\ tagger = "none"
    /\ candidates \in SUBSET Spans(MaxTagTokens)
    /\ exposed = {}

TagMatches(name) ==
    /\ tagger = "none"
    /\ tagger' = name
    /\ exposed' = RunTagger(name, candidates)
    /\ UNCHANGED <<candidates, apiVars, pipeVars, buildVars, concVars, lexVars, cohVars, sizeVars, pairVars, sentVars, countVars, descVars>>

TagNext == \E name \in TaggerNames : TagMatches(name)

(***************************************************************************)
(* The pipeline of custom pipes. A document is its tokens; each token has a *)
(* kind and the sentence start flag of the parser. The kinds: a noun        *)
(* ("perro"), a verb ("ve"), one token of an occurrence of the paragraph    *)
(* delimiter, and a token that holds an occurrence of the delimiter and     *)
(* more (as '\n\n\n' does for '\n\n').                                      *)
(***************************************************************************)
TokenKinds == {"noun", "verb", "delim", "fused"}

DelimiterWidths == {1, 2}

Docs(n) ==
    {doc \in SeqsUpTo([kind : TokenKinds, sent_start : BOOLEAN], n) :
        doc # <<>> => doc[1].sent_start}

\* token i of the document, counted from 0 as spaCy does
TokenAt(doc, i) == doc[i + 1]

KindIsAlpha(kind) == kind \in {"noun", "verb"}

KindPos(kind) ==
    CASE kind = "noun" -> "NOUN" [] kind = "verb" -> "VERB" [] OTHER -> "SPACE"

\* len(token)
KindLetters(kind) == CASE kind = "noun" -> 5 [] kind = "verb" -> 2 [] OTHER -> 2

\* len(pyphen.inserted(token.text).split('-'))
KindSyllables(kind) == CASE kind = "noun" -> 2 [] kind = "verb" -> 1 [] OTHER -> 1

\* a delimiter of one token is whitespace; one of several tokens is not
KindIsSpace(kind, width) == kind = "fused" \/ (kind = "delim" /\ width = 1)

SpanOf(start, end) == [start |-> start, end |-> end]

\* what doc.char_span gives when the characters are not whole tokens
NoSpan == [start |-> -1, end |-> -1]

\* re.finditer(delimiter, doc.text) with doc.char_span of each match: the
\* token span of the match, or None when it does not end on token boundaries
RECURSIVE DelimiterMatches(_, _, _)
DelimiterMatches(doc, width, i) ==
    IF i >= Len(doc) THEN <<>>
    ELSE IF TokenAt(doc, i).kind = "fused"
    THEN <<NoSpan>> \o DelimiterMatches(doc, width, i + 1)
    ELSE IF /\ i + width <= Len(doc)
            /\ \A j \in i..(i + width - 1) : TokenAt(doc, j).kind = "delim"
    THEN <<SpanOf(i, i + width)>> \o DelimiterMatches(doc, width, i + width)
    ELSE DelimiterMatches(doc, width, i + 1)

\* the loop of Paragraphizer.__call__ over the matches
RECURSIVE ParagraphLoop(_, _, _, _)
ParagraphLoop(doc, matches, token_i, paragraphs) ==
    IF matches = <<>>
    THEN Ok(IF token_i # Len(doc) THEN Append(paragraphs, SpanOf(token_i, Len(doc)))
            ELSE paragraphs)
    ELSE IF Head(matches) = NoSpan THEN Raise("AttributeError")
    ELSE ParagraphLoop(doc, Tail(matches), Head(matches).end,
                       Append(paragraphs, SpanOf(token_i, Head(matches).start + 1)))

\* Span.sents: the start of the sentence the span starts in
RECURSIVE SentenceStartBefore(_, _)
SentenceStartBefore(doc, start) ==
    IF ~TokenAt(doc, start).sent_start /\ start > 0
    THEN SentenceStartBefore(doc, start - 1)
    ELSE start

\* Span.sents: for i in range(start + 1, doc.length), and what follows it
RECURSIVE SentsLoop(_, _, _, _, _, _)
SentsLoop(doc, span, toDocEnd, start, i, sents) ==
    LET n == Len(doc)
        trailing == IF toDocEnd
                    THEN (IF start = n - 1 THEN <<SpanOf(start, n)>> ELSE <<>>)
                    ELSE (IF start < span.end THEN <<SpanOf(start, span.end)>> ELSE <<>>)
    IN  IF i >= n THEN sents \o trailing
        ELSE IF TokenAt(doc, i).sent_start
        THEN IF i >= span.end
             THEN Append(sents, SpanOf(start, i))
                      \o (IF toDocEnd /\ i = n - 1 THEN <<SpanOf(i, n)>> ELSE <<>>)
             ELSE SentsLoop(doc, span, toDocEnd, i, i + 1, Append(sents, SpanOf(start, i)))
        ELSE IF toDocEnd /\ i = n - 1
        THEN SentsLoop(doc, span, toDocEnd, start, i + 1, Append(sents, SpanOf(start, n)))
        ELSE SentsLoop(doc, span, toDocEnd, start, i + 1, sents)

\* Span.sents of spaCy 3.3 and later: all the sentences the span is a part of
SpanSents(doc, span, toDocEnd) ==
    LET start == SentenceStartBefore(doc, span.start)
    IN  SentsLoop(doc, span, toDocEnd, start, start + 1, <<>>)

\* doc.sents
RECURSIVE DocSents(_, _, _)
DocSents(doc, start, i) ==
    IF Len(doc) = 0 THEN <<>>
    ELSE IF i >= Len(doc) THEN <<SpanOf(start, Len(doc))>>
    ELSE IF TokenAt(doc, i).sent_start
    THEN <<SpanOf(start, i)>> \o DocSents(doc, i, i + 1)
    ELSE DocSents(doc, start, i + 1)

\* len(s.text.strip()) > 0
SpanHasContent(doc, width, span) ==
    \E i \in SpanTokens(span) : ~KindIsSpace(TokenAt(doc, i).kind, width)

\* the token indices of a span, in order
SpanTokenSeq(span) == [k \in 1..(span.end - span.start) |-> span.start + k - 1]

(***************************************************************************)
(* What the pipes keep on the document. Values kept on a Span belong to its *)
(* position in the document: two Span objects over the same tokens share    *)
(* them.                                                                    *)
(***************************************************************************)
WordCategories ==
    {"nouns", "verbs", "adjectives", "adverbs", "pronouns",
     "pronouns_singular_first_person", "pronouns_plural_first_person",
     "pronouns_singular_second_person", "pronouns_plural_second_person",
     "pronouns_singular_third_person", "pronouns_plural_third_person"}

NoCounts == [c \in WordCategories |-> 0]

\* the defaults of the extensions of a document of n tokens
UpstreamDefaults(n) ==
    [paragraphs |-> <<>>,
     paragraph_count |-> 0,
     non_empty_sentences |-> <<>>,
     para_sentence_count |-> <<>>,
     sentence_count |-> 0,
     alpha_words |-> [sp \in Spans(n) |-> <<>>],
     alpha_words_count |-> [sp \in Spans(n) |-> 0],
     doc_alpha_words_count |-> 0,
     alpha_words_different |-> {},
     alpha_words_different_count |-> 0,
     syllable_count |-> [i \in 0..(n - 1) |-> 0],
     sent_counts |-> [sp \in Spans(n) |-> NoCounts],
     doc_counts |-> NoCounts]

IndicesDefaults ==
    [descriptive_indices |-> <<>>,
     word_information_indices |-> <<>>,
     readability_indices |-> <<>>,
     sentences_with_content |-> <<>>]

\* doc._.non_empty_sentences: the sentences of every paragraph, in order
doc_non_empty_sentences_getter(up) == Concat(up.non_empty_sentences)

\* doc._.alpha_words: the words of every sentence of every paragraph
doc_alpha_words_getter(up) ==
    Concat(Map(LAMBDA sent : up.alpha_words[sent], doc_non_empty_sentences_getter(up)))

\* Paragraphizer.__call__
Paragraphizer(doc, width, toDocEnd, up) ==
    LET loop == ParagraphLoop(doc, DelimiterMatches(doc, width, 0), 0, <<>>)
        paragraphs == loop.val
        sents == Map(LAMBDA para :
                         SelectSeq(SpanSents(doc, para, toDocEnd),
                                   LAMBDA s : SpanHasContent(doc, width, s)),
                     paragraphs)
    IN  IF loop.err # "none" THEN Raise(loop.err)
        ELSE Ok([up EXCEPT
                    !.paragraphs = paragraphs,
                    !.paragraph_count = Len(paragraphs),
                    !.non_empty_sentences = sents,
                    !.para_sentence_count = Map(Len, sents),
                    !.sentence_count = up.sentence_count + SumInts(Map(Len, sents))])

\* the loop of AlphanumericWordIdentifier.__call__ over the sentences of the
\* paragraphs: the words of a sentence are stored, their number is added
RECURSIVE AlphaLoop(_, _, _)
AlphaLoop(doc, sents, up) ==
    IF sents = <<>> THEN up
    ELSE LET sent == Head(sents)
             words == SelectSeq(SpanTokenSeq(sent), LAMBDA i : KindIsAlpha(TokenAt(doc, i).kind))
         IN  AlphaLoop(doc, Tail(sents),
                       [up EXCEPT !.alpha_words[sent] = words,
                                  !.alpha_words_count[sent] = Len(words),
                                  !.doc_alpha_words_count = up.doc_alpha_words_count + Len(words)])

AlphanumericWordIdentifier(doc, up) ==
    LET after == AlphaLoop(doc, doc_non_empty_sentences_getter(up), up)
        different == {TokenAt(doc, i).kind : i \in Range(doc_alpha_words_getter(after))}
    IN  Ok([after EXCEPT !.alpha_words_different = different,
                         !.alpha_words_different_count = Cardinality(different)])

\* Syllablelizer.__call__: for token in doc._.alpha_words
Syllablelizer(doc, up) ==
    Ok([up EXCEPT !.syllable_count =
            [i \in DOMAIN up.syllable_count |->
                IF i \in Range(doc_alpha_words_getter(up))
                THEN KindSyllables(TokenAt(doc, i).kind)
                ELSE up.syllable_count[i]]])

\* token.morph of the kinds of token of this model
KindMorph(kind) == {}

\* the tests of InformativeWordTagger.__call__ on the words of a sentence
InCategory(kind, category) ==
    LET form(number, person) ==
            KindPos(kind) = "PRON" /\ {number, person} \subseteq KindMorph(kind)
    IN  CASE category = "nouns" -> KindPos(kind) \in {"NOUN", "PROPN"}
          [] category = "verbs" ->
                KindPos(kind) = "VERB"
                    \/ (KindPos(kind) = "AUX" /\ "VerbForm" \in KindMorph(kind))
          [] category = "adjectives" -> KindPos(kind) = "ADJ"
          [] category = "adverbs" -> KindPos(kind) = "ADV"
          [] category = "pronouns" -> KindPos(kind) = "PRON"
          [] category = "pronouns_singular_first_person" -> form("Number=Sing", "Person=1")
          [] category = "pronouns_plural_first_person" -> form("Number=Plur", "Person=1")
          [] category = "pronouns_singular_second_person" -> form("Number=Sing", "Person=2")
          [] category = "pronouns_plural_second_person" -> form("Number=Plur", "Person=2")
          [] category = "pronouns_singular_third_person" -> form("Number=Sing", "Person=3")
          [] category = "pronouns_plural_third_person" -> form("Number=Plur", "Person=3")

RECURSIVE InformativeLoop(_, _, _)
InformativeLoop(doc, sents, up) ==
    IF sents = <<>> THEN up
    ELSE LET sent == Head(sents)
             counts == [c \in WordCategories |->
                           Len(SelectSeq(up.alpha_words[sent],
                                         LAMBDA i : InCategory(TokenAt(doc, i).kind, c)))]
         IN  InformativeLoop(doc, Tail(sents),
                 [up EXCEPT !.sent_counts[sent] = counts,
                            !.doc_counts = [c \in WordCategories |->
                                               up.doc_counts[c] + counts[c]]])

\* InformativeWordTagger.__call__: for sent in doc._.non_empty_sentences
InformativeWordTagger(doc, up) ==
    Ok(InformativeLoop(doc, doc_non_empty_sentences_getter(up), up))

\* split_doc_into_sentences(doc) of the pipes' DescriptiveIndices
sentences_with_content(doc, width) ==
    SelectSeq(DocSents(doc, 0, 1), LAMBDA s : SpanHasContent(doc, width, s))

\* _get_mean_std_of_metric(doc, counter_function, 'all') on a non-empty text
mean_std_of_metric(counter) ==
    IF StatisticsPstdev(counter).err # "none" THEN Raise(StatisticsPstdev(counter).err)
    ELSE Ok([mean |-> StatisticsMean(counter).val, std |-> StatisticsPstdev(counter).val])

\* dict[key] = value for the entries in order, on top of what the dict holds
WriteEntries(dict, entries) == MergeDicts(<<dict, DictOf(entries)>>)

\* the four helpers of DescriptiveIndices.__call__, each writing its mean and
\* deviation; the first that raises ends the call
RECURSIVE DescriptiveHelpers(_, _)
DescriptiveHelpers(dict, helpers) ==
    IF helpers = <<>> THEN [err |-> "none", val |-> dict]
    ELSE LET h == Head(helpers)
             metrics == mean_std_of_metric(h.counter)
         IN  IF metrics.err # "none" THEN [err |-> metrics.err, val |-> dict]
             ELSE DescriptiveHelpers(
                      WriteEntries(dict, <<<<h.mean, metrics.val.mean>>,
                                           <<h.std, metrics.val.std>>>>),
                      Tail(helpers))

\* what a pipe leaves on the document: the annotations and the dictionaries
DocState(up, ind) == [up |-> up, ind |-> ind]

\* DescriptiveIndices.__call__ of the pipes; val is what doc holds afterwards,
\* also when the call raised half way
DescriptiveIndices(doc, width, up, ind) ==
    IF Len(doc) = 0 THEN [err |-> "ValueError", val |-> DocState(up, ind)]
    ELSE LET content == sentences_with_content(doc, width)
             counts == WriteEntries(ind.descriptive_indices,
                           <<<<"DESPC", FInt(up.paragraph_count)>>,
                             <<"DESSC", FInt(up.sentence_count)>>,
                             <<"DESWC", FInt(up.doc_alpha_words_count)>>>>)
             words == doc_alpha_words_getter(up)
             helpers ==
                 DescriptiveHelpers(counts,
                     <<[mean |-> "DESPL", std |-> "DESPLd",
                        counter |-> Map(FInt, up.para_sentence_count)],
                       [mean |-> "DESSL", std |-> "DESSLd",
                        counter |-> Map(LAMBDA sent : FInt(up.alpha_words_count[sent]),
                                        content)],
                       [mean |-> "DESWLlt", std |-> "DESWLltd",
                        counter |-> Map(LAMBDA i : FInt(KindLetters(TokenAt(doc, i).kind)),
                                        words)],
                       [mean |-> "DESWLsy", std |-> "DESWLsyd",
                        counter |-> Map(LAMBDA i : FInt(up.syllable_count[i]), words)]>>)
         IN  [err |-> helpers.err,
              val |-> DocState(up, [ind EXCEPT !.sentences_with_content = content,
                                               !.descriptive_indices = helpers.val])]

\* the eleven incidences, in the order WordInformationIndices.__call__ writes them
WordInformationCodes ==
    <<<<"WRDNOUN", "nouns">>, <<"WRDVERB", "verbs">>, <<"WRDADJ", "adjectives">>,
      <<"WRDADV", "adverbs">>, <<"WRDPRO", "pronouns">>,
      <<"WRDPRP1s", "pronouns_singular_first_person">>,
      <<"WRDPRP1p", "pronouns_plural_first_person">>,
      <<"WRDPRP2s", "pronouns_singular_second_person">>,
      <<"WRDPRP2p", "pronouns_plural_second_person">>,
      <<"WRDPRP3s", "pronouns_singular_third_person">>,
      <<"WRDPRP3p", "pronouns_plural_third_person">>>>

\* WordInformationIndices.__call__ of the pipes:
\* (doc._.<category>_count / doc._.alpha_words_count) * incidence
WordInformationIndices(doc, up, ind) ==
    IF up.doc_alpha_words_count = 0
    THEN [err |-> "ZeroDivisionError", val |-> DocState(up, ind)]
    ELSE Ok(DocState(up,
             [ind EXCEPT !.word_information_indices =
                 WriteEntries(ind.word_information_indices,
                     Map(LAMBDA e :
                             <<e[1], FMul(Frac(up.doc_counts[e[2]],
                                               up.doc_alpha_words_count),
                                          FInt(Incidence))>>,
                         WordInformationCodes))]))

\* ReadabilityIndices.__call__ of the pipes
\* a reducer that also writes the readability score among the descriptive indices
ReadabilityIndices_WritingDescriptive(doc, up, ind) ==
    Ok(DocState(up, [ind EXCEPT !.descriptive_indices =
                        WriteEntries(ind.descriptive_indices, <<<<"RDFHGL", FInt(0)>>>>)]))

ReadabilityIndices(doc, up, ind) ==
    IF Len(doc) = 0 THEN [err |-> "ValueError", val |-> DocState(up, ind)]
    ELSE IF ~({"DESWLsy", "DESSL"} \subseteq DOMAIN ind.descriptive_indices)
    THEN [err |-> "KeyError", val |-> DocState(up, ind)]
    ELSE Ok(DocState(up,
             [ind EXCEPT !.readability_indices =
                 WriteEntries(ind.readability_indices,
                     <<<<"RDFHGL",
                         FSub(FSub(Frac(20684, 100),
                                   FMul(Frac(6, 10), ind.descriptive_indices["DESWLsy"])),
                              FMul(Frac(102, 100), ind.descriptive_indices["DESSL"]))>>>>)]))

(***************************************************************************)
(* nlp(text): the pipes are called one after the other. The order is any    *)
(* order in which they can have been added: a pipe comes after the pipes    *)
(* its constructor asks for.                                                *)
(***************************************************************************)
PipeNames ==
    {"paragraphizer", "alphanumeric_word_identifier", "syllablelizer",
     "informative_word_tagger", "descriptive_indices", "word_information_indices",
     "readability_indices"}

\* required_pipes of the constructors; Syllablelizer asks for none
required_pipes(pipe) ==
    CASE pipe = "paragraphizer" -> {}
      [] pipe = "alphanumeric_word_identifier" -> {"paragraphizer"}
      [] pipe = "syllablelizer" -> {}
      [] pipe = "informative_word_tagger" -> {"paragraphizer", "alphanumeric_word_identifier"}
      [] pipe = "descriptive_indices" ->
            {"alphanumeric_word_identifier", "paragraphizer", "syllablelizer"}
      [] pipe = "word_information_indices" ->
            {"alphanumeric_word_identifier", "informative_word_tagger"}
      [] pipe = "readability_indices" -> {"descriptive_indices"}
      [] pipe = "content_word_identifier" -> {"paragraphizer", "morphologizer"}
      [] pipe = "cohesion_words_tokenizer" ->
            {"alphanumeric_word_identifier", "content_word_identifier"}
      [] OTHER -> {}

PipeIdle ==
    /\ pDoc = <<>> /\ pDelimiter = 1 /\ pSentsToDocEnd = FALSE
    /\ pRan = <<>> /\ pOutcome = "ok"
    /\ pUpstream = UpstreamDefaults(0) /\ pIndices = IndicesDefaults

PipeInit ==
    /\ pDoc \in Docs(MaxTokens)
    /\ pDelimiter \in DelimiterWidths
    /\ pSentsToDocEnd \in BOOLEAN
    /\ pRan = <<>> /\ pOutcome = "ok"
    /\ pUpstream = UpstreamDefaults(Len(pDoc))
    /\ pIndices = IndicesDefaults

\* the next pipe of the pipeline is called
CanRun(pipe) ==
    /\ pOutcome = "ok"
    /\ pipe \notin Range(pRan)
    /\ required_pipes(pipe) \subseteq Range(pRan)

\* an annotating pipe: it writes on the document, its spans and its tokens
RunAnnotator(pipe, res) ==
    /\ CanRun(pipe)
    /\ pRan' = Append(pRan, pipe)
    /\ pOutcome' = IF res.err = "none" THEN "ok" ELSE res.err
    /\ pUpstream' = IF res.err = "none" THEN res.val ELSE pUpstream
    /\ UNCHANGED <<pDoc, pDelimiter, pSentsToDocEnd, pIndices, apiVars, tagVars, buildVars, concVars, lexVars, cohVars, sizeVars, pairVars, sentVars, countVars, descVars>>

\* a reducer pipe: the document is as its call leaves it
RunReducer(pipe, res) ==
    /\ CanRun(pipe)
    /\ pRan' = Append(pRan, pipe)
    /\ pOutcome' = IF res.err = "none" THEN "ok" ELSE res.err
    /\ pUpstream' = res.val.up
    /\ pIndices' = res.val.ind
    /\ UNCHANGED <<pDoc, pDelimiter, pSentsToDocEnd, apiVars, tagVars, buildVars, concVars, lexVars, cohVars, sizeVars, pairVars, sentVars, countVars, descVars>>

RunParagraphizer ==
    RunAnnotator("paragraphizer", Paragraphizer(pDoc, pDelimiter, pSentsToDocEnd, pUpstream))

RunAlphanumericWordIdentifier ==
    RunAnnotator("alphanumeric_word_identifier", AlphanumericWordIdentifier(pDoc, pUpstream))

RunSyllablelizer == RunAnnotator("syllablelizer", Syllablelizer(pDoc, pUpstream))

RunInformativeWordTagger ==
    RunAnnotator("informative_word_tagger", InformativeWordTagger(pDoc, pUpstream))

RunDescriptiveIndices ==
    RunReducer("descriptive_indices",
               DescriptiveIndices(pDoc, pDelimiter, pUpstream, pIndices))

RunWordInformationIndices ==
    RunReducer("word_information_indices", WordInformationIndices(pDoc, pUpstream, pIndices))

RunReadabilityIndices ==
    RunReducer("readability_indices", ReadabilityIndices(pDoc, pUpstream, pIndices))

PipeNext ==
    \/ RunParagraphizer
    \/ RunAlphanumericWordIdentifier
    \/ RunSyllablelizer
    \/ RunInformativeWordTagger
    \/ RunDescriptiveIndices
    \/ RunWordInformationIndices
    \/ RunReadabilityIndices

(***************************************************************************)
(* Building the pipeline. nlp.add_pipe(name) constructs the pipe, whose      *)
(* constructor looks for its required pipes in nlp.pipe_names, and appends  *)
(* it; nlp(text) calls the pipes in the order of the pipeline.              *)
(***************************************************************************)
\* what the loaded language model brings
LoadedPipes == <<"morphologizer">>

FactoryNames ==
    PipeNames \cup {"content_word_identifier", "cohesion_words_tokenizer"}

BuildIdle == nlpPipeNames = <<>> /\ nlpCalled = <<>> /\ nlpOutcome = "idle"

BuildInit == nlpPipeNames = LoadedPipes /\ nlpCalled = <<>> /\ nlpOutcome = "building"

\* an add_pipe whose constructors look for nothing
AddPipe_Unchecked(pipe) ==
    /\ nlpOutcome = "building"
    /\ pipe \notin Range(nlpPipeNames)
    /\ Len(nlpPipeNames) < Len(LoadedPipes) + MaxPipes
    /\ nlpPipeNames' = Append(nlpPipeNames, pipe)
    /\ UNCHANGED <<nlpOutcome, nlpCalled, apiVars, tagVars, pipeVars, concVars, lexVars, cohVars, sizeVars, pairVars, sentVars, countVars, descVars>>

\* nlp.add_pipe(pipe): the factory constructs the pipe, then it is appended
AddPipe(pipe) ==
    /\ nlpOutcome = "building"
    /\ pipe \notin Range(nlpPipeNames)
    /\ Len(nlpPipeNames) < Len(LoadedPipes) + MaxPipes
    /\ IF required_pipes(pipe) \subseteq Range(nlpPipeNames)
       THEN nlpPipeNames' = Append(nlpPipeNames, pipe) /\ UNCHANGED nlpOutcome
       ELSE nlpOutcome' = "AttributeError" /\ UNCHANGED nlpPipeNames
    /\ UNCHANGED <<nlpCalled, apiVars, tagVars, pipeVars, concVars, lexVars, cohVars, sizeVars, pairVars, sentVars, countVars, descVars>>

\* nlp(text): a document is made and goes to the first pipe
CallNlp ==
    /\ nlpOutcome = "building"
    /\ nlpOutcome' = "calling"
    /\ UNCHANGED <<nlpPipeNames, nlpCalled, apiVars, tagVars, pipeVars, concVars, lexVars, cohVars, sizeVars, pairVars, sentVars, countVars, descVars>>

\* the next pipe of the pipeline is called on the document
CallNextPipe ==
    /\ nlpOutcome = "calling"
    /\ Len(nlpCalled) < Len(nlpPipeNames)
    /\ nlpCalled' = Append(nlpCalled, nlpPipeNames[Len(nlpCalled) + 1])
    /\ UNCHANGED <<nlpPipeNames, nlpOutcome, apiVars, tagVars, pipeVars, concVars, lexVars, cohVars, sizeVars, pairVars, sentVars, countVars, descVars>>

BuildNext ==
    \/ \E pipe \in FactoryNames : AddPipe(pipe)
    \/ CallNlp
    \/ CallNextPipe

(***************************************************************************)
(* Two computations on one analyzer. A computation assigns its function to  *)
(* the pipe (counter_function of the feature counter, sentence_analyzer of  *)
(* the adjacent sentences analyzer) and then sends its text through the     *)
(* pipeline, where the pipe calls the function it holds at that moment.     *)
(***************************************************************************)
Computations == {1, 2}

Metrics == {"sentence_count", "word_count", "noun_overlap", "anaphore_overlap"}

CounterMetrics == {"sentence_count", "word_count"}

\* the function a metric assigns to its pipe
FunctionOf(metric) ==
    CASE metric = "sentence_count" -> "sentence_counter"
      [] metric = "word_count" -> "word_counter"
      [] metric = "noun_overlap" -> "analyze_noun_overlap"
      [] metric = "anaphore_overlap" -> "analyze_anaphore_overlap"

\* FeatureCounter.__call__: doc._.feature_count = self.counter_function(doc)
FeatureCounter(function, doc) ==
    IF function = "sentence_counter" THEN sentence_counter(doc) ELSE word_counter(doc)

\* the metric of a text when nothing else uses the analyzer
RunAlone(metric, text) ==
    CASE metric = "sentence_count" -> get_sentence_count_from_text(text, 1)
      [] metric = "word_count" -> get_word_count_from_text(text, 1)
      [] metric = "noun_overlap" ->
            LET res == calculate_overlap_for_adjacent_sentences(
                           text, "analyze_noun_overlap", "mean", 1)
            IN  IF res.err # "none" THEN Raise(res.err) ELSE Ok(res.val.mean)
      [] metric = "anaphore_overlap" ->
            LET res == calculate_overlap_for_adjacent_sentences(
                           text, "analyze_anaphore_overlap", "mean", 1)
            IN  IF res.err # "none" THEN Raise(res.err) ELSE Ok(res.val.mean)

ConcIdle ==
    /\ counter_function = "none" /\ adjacent_sentence_analyzer = "none"
    /\ cText = <<>> /\ cMetric = <<>> /\ cPc = <<>> /\ cResult = <<>>

ConcInit ==
    /\ counter_function = "none" /\ adjacent_sentence_analyzer = "none"
    /\ cText \in [Computations -> Texts(MaxPieces, MaxSentences)]
    /\ cMetric \in [Computations -> Metrics]
    /\ cPc = [c \in Computations |-> "start"]
    /\ cResult = [c \in Computations |-> Raise("none")]

\* the checks of the getter, then
\* self._nlp.get_pipe(...).counter_function = ... / .sentence_analyzer = ...
AssignFunction(c) ==
    /\ cPc[c] = "start"
    /\ IF TextIsEmpty(cText[c])
       THEN /\ cPc' = [cPc EXCEPT ![c] = "done"]
            /\ cResult' = [cResult EXCEPT ![c] = Raise("ValueError")]
            /\ UNCHANGED <<counter_function, adjacent_sentence_analyzer>>
       ELSE /\ cPc' = [cPc EXCEPT ![c] = "assigned"]
            /\ IF cMetric[c] \in CounterMetrics
               THEN /\ counter_function' = FunctionOf(cMetric[c])
                    /\ UNCHANGED adjacent_sentence_analyzer
               ELSE /\ adjacent_sentence_analyzer' = FunctionOf(cMetric[c])
                    /\ UNCHANGED counter_function
            /\ UNCHANGED cResult
    /\ UNCHANGED <<cText, cMetric, apiVars, tagVars, pipeVars, buildVars, lexVars, cohVars, sizeVars, pairVars, sentVars, countVars, descVars>>

\* the traversal: nlp.pipe(paragraphs) summed, or nlp(text) and the mean
TraverseParagraphs(c) ==
    /\ cPc[c] = "assigned"
    /\ cPc' = [cPc EXCEPT ![c] = "done"]
    /\ cResult' = [cResult EXCEPT ![c] =
           IF cMetric[c] \in CounterMetrics
           THEN Ok(SumOverParagraphs(
                       Map(LAMBDA doc : FeatureCounter(counter_function, doc),
                           split_text_into_paragraphs(cText[c]))))
           ELSE Ok(OverlapStatistics(
                       ReferentialCohesionAdjacentSentencesAnalyzer(
                           WholeDoc(cText[c]), adjacent_sentence_analyzer),
                       "mean").mean)]
    /\ UNCHANGED <<counter_function, adjacent_sentence_analyzer, cText, cMetric,
                   apiVars, tagVars, pipeVars, buildVars, lexVars, cohVars, sizeVars, pairVars, sentVars, countVars, descVars>>

ConcNext == \E c \in Computations : AssignFunction(c) \/ TraverseParagraphs(c)

(***************************************************************************)
(* The connective taggers on the words of a document. A document is the     *)
(* sequence of its token texts; a connective of a lexicon is the sequence   *)
(* of token texts the tokenizer makes of it.                                *)
(***************************************************************************)
\* self._connectives of CausalConnectivesTagger ('pues' is listed twice)
CausalConnectives ==
    {<<"por">>, <<"porque">>, <<"a", "causa", "de">>, <<"puesto", "que">>,
     <<"con", "motivo", "de">>, <<"pues">>, <<"ya", "que">>, <<"conque">>, <<"luego">>,
     <<"por", "consiguiente">>, <<"así", "que">>, <<"en", "consecuencia">>,
     <<"de", "manera", "que">>, <<"tan">>, <<"tanto", "que">>, <<"por", "lo", "tanto">>,
     <<"de", "modo", "que">>}

\* the list create_es_logical_connectives_tagger hands over
LogicalConnectives ==
    {<<"y">>, <<"o">>}

\* the list create_es_adversative_connectives_tagger hands over
AdversativeConnectives ==
    {<<"pero">>, <<"sino">>, <<"no", "obstante">>, <<"sino", "que">>,
     <<"sin", "embargo">>, <<"pero", "sí">>, <<"aunque">>, <<"menos">>, <<"solo">>,
     <<"excepto">>, <<"salvo">>, <<"más", "que">>, <<"en", "cambio">>,
     <<"ahora", "bien">>, <<"más", "bien">>}

\* self._connectives of TemporalConnectivesTagger
TemporalConnectives ==
    {<<"actualmente">>, <<"ahora">>, <<"después">>, <<"más", "tarde">>,
     <<"más", "adelante">>, <<"a", "continuación">>, <<"antes">>, <<"mientras">>,
     <<"érase", "una", "vez">>, <<"hace", "mucho", "tiempo">>, <<"tiempo", "antes">>,
     <<"finalmente">>, <<"inicialmente">>, <<"ya">>, <<"simultáneamente">>,
     <<"previamente">>, <<"anteriormente">>, <<"posteriormente">>,
     <<"al", "mismo", "tiempo">>, <<"durante">>}

\* self._connectives of AdditiveConnectivesTagger: 'igualmente' 'de igual modo'
\* stands in the list with no comma between, which Python reads as the one
\* string 'igualmentede igual modo'
AdditiveConnectives ==
    {<<"asimismo">>, <<"igualmentede", "igual", "modo">>, <<"de", "igual", "manera">>,
     <<"de", "igual", "forma">>, <<"del", "mismo", "modo">>,
     <<"de", "la", "misma", "manera">>, <<"de", "la", "misma", "forma">>,
     <<"en", "primer", "lugar">>, <<"en", "segundo", "lugar">>,
     <<"en", "tercer", "lugar">>, <<"en", "último", "lugar">>, <<"por", "su", "parte">>,
     <<"por", "otro", "lado">>, <<"además">>, <<"encima">>, <<"es", "más">>,
     <<"por", "añadidura">>, <<"incluso">>, <<"inclusive">>, <<"para", "colmo">>}

Connectives(class) ==
    CASE class = "causal" -> CausalConnectives
      [] class = "logical" -> LogicalConnectives
      [] class = "adversative" -> AdversativeConnectives
      [] class = "temporal" -> TemporalConnectives
      [] class = "additive" -> AdditiveConnectives

\* PhraseMatcher(nlp.vocab, attr='LOWER') called on the document: every run
\* of tokens whose lowercased texts are those of a connective
PhraseMatcher(connectives, doc) ==
    {sp \in Spans(Len(doc)) :
        [i \in 1..SpanLen(sp) |-> Lower(doc[sp.start + i])] \in connectives}

\* the __call__ of the tagger of a class: the matches through filter_spans
ConnectiveTagger(class, doc) ==
    CASE class = "causal" -> CausalConnectivesTagger(PhraseMatcher(CausalConnectives, doc))
      [] class = "logical" -> LogicalConnectivesTagger(PhraseMatcher(LogicalConnectives, doc))
      [] class = "adversative" -> FilterSpans(PhraseMatcher(AdversativeConnectives, doc))
      [] class = "temporal" -> TemporalConnectivesTagger(PhraseMatcher(TemporalConnectives, doc))
      [] class = "additive" -> AdditiveConnectivesTagger(PhraseMatcher(AdditiveConnectives, doc))

\* AdditiveConnectivesTagger.__init__(nlp, language): language in
\* ACCEPTED_LANGUAGES, a dictionary, raises TypeError for a list
AdditiveConnectivesTagger_init(language) ==
    IF language = "list" THEN Raise("TypeError")
    ELSE IF language # "es" THEN Raise("ValueError")
    ELSE Ok(AdditiveConnectives)

\* the factory hands its list of connectives over as the language
create_es_additive_connectives_tagger == AdditiveConnectivesTagger_init("list")

\* the words the documents are made of
LexWords ==
    {"Ya", "que", "igualmente", "igualmentede", "de", "igual", "modo", "además"}

\* the text of the document for the analyzer: one paragraph of one sentence,
\* all tokens words, with the connectives the taggers of the pipeline store
LexText(doc) ==
    IF doc = <<>> THEN <<EmptyPiece>>
    ELSE <<[blank |-> FALSE,
            sents |-> <<[tokens |-> [i \in 1..Len(doc) |->
                                        Tok(doc[i], Lower(doc[i]), "X", TRUE, 1, 1, {}, FALSE)],
                         noun_phrases |-> <<>>,
                         verb_phrases |-> <<>>,
                         negation_expressions |-> <<>>,
                         connectives |-> [class \in ConnectiveClasses |->
                                             Cardinality(ConnectiveTagger(class, doc))]]>>]>>

NoSpans == [class \in ConnectiveClasses |-> {}]

LexIdle ==
    /\ lxDoc = <<>> /\ lxVia = "none" /\ lxTagOutcome = "none"
    /\ lxSpans = NoSpans /\ lxOutcome = "none" /\ lxIndices = <<>>

LexInit ==
    /\ lxDoc \in SeqsUpTo(LexWords, MaxWords)
    /\ lxVia \in {"analyzer", "factory"}
    /\ lxTagOutcome = "none"
    /\ lxSpans = NoSpans
    /\ lxOutcome = "none"
    /\ lxIndices = <<>>

\* the five connective taggers are constructed and called on the document;
\* the analyzer constructs the additive one with the language 'es'
CallConnectiveTaggers ==
    /\ lxTagOutcome = "none"
    /\ LET additive == IF lxVia = "factory" THEN create_es_additive_connectives_tagger
                       ELSE AdditiveConnectivesTagger_init("es")
       IN  IF additive.err # "none"
           THEN lxTagOutcome' = additive.err /\ UNCHANGED lxSpans
           ELSE /\ lxTagOutcome' = "ok"
                /\ lxSpans' = [class \in ConnectiveClasses |-> ConnectiveTagger(class, lxDoc)]
    /\ UNCHANGED <<lxDoc, lxVia, lxOutcome, lxIndices, apiVars, tagVars, pipeVars,
                   buildVars, concVars, cohVars, sizeVars, pairVars, sentVars, countVars, descVars>>

\* calculate_connective_indices_for_one_text(text) of the analyzer
CallConnectiveIndices ==
    /\ lxOutcome = "none"
    /\ LET res == calculate_connective_indices_for_one_text(LexText(lxDoc), 0 - 1, NoneValue)
       IN  IF res.err # "none"
           THEN lxOutcome' = res.err /\ UNCHANGED lxIndices
           ELSE lxOutcome' = "returned" /\ lxIndices' = res.val
    /\ UNCHANGED <<lxDoc, lxVia, lxTagOutcome, lxSpans, apiVars, tagVars, pipeVars,
                   buildVars, concVars, cohVars, sizeVars, pairVars, sentVars, countVars, descVars>>

LexNext == CallConnectiveTaggers \/ CallConnectiveIndices

(***************************************************************************)
(* Two adjacent sentences of a document: the word identifiers and the       *)
(* cohesion words tokenizer store their words and sets of words on each     *)
(* sentence, the overlap analyzers compare the two.                         *)
(***************************************************************************)
tPerroCap == Tok("Perro", "perro", "NOUN", TRUE, 5, 2, {"Number=Sing"}, FALSE)

tGato == Tok("gato", "gato", "NOUN", TRUE, 4, 2, {"Number=Sing"}, FALSE)

tCorre == Tok("corre", "correr", "VERB", TRUE, 5, 2, {"Number=Sing", "Person=3"}, TRUE)

tTambien == Tok("también", "también", "ADV", TRUE, 7, 2, {}, FALSE)

\* a noun that is not alphabetic
tPerro2 == Tok("perro2", "perro2", "NOUN", FALSE, 6, 2, {}, FALSE)

PairTokens == {tEl, tPerro, tPerroCap, tVe, tPerro2}

SentenceOf(tokens) ==
    [tokens |-> tokens, noun_phrases |-> <<>>, verb_phrases |-> <<>>,
     negation_expressions |-> <<>>, connectives |-> NoConnectives]

\* "El perro corre." and "El gato también corre."
PerroCorre == SentenceOf(<<tEl, tPerro, tCorre, tDot>>)

GatoCorre == SentenceOf(<<tEl, tGato, tTambien, tCorre, tDot>>)

PairSentences(n) == {SentenceOf(tokens) : tokens \in SeqsUpTo(PairTokens, n) \ {<<>>}}

\* the text of the two sentences, one paragraph
PairText(prev, cur) == <<[blank |-> FALSE, sents |-> <<prev, cur>>]>>

\* the extensions of a sentence before any pipe has run
NoWords ==
    [alpha_words |-> <<>>, content_words |-> <<>>, content_words_count |-> 0,
     unique_nouns |-> {}, unique_noun_lemmas |-> {}, unique_content_words |-> {},
     unique_content_word_lemmas |-> {}, unique_pronouns |-> {},
     unique_personal_pronouns |-> {}]

\* AlphanumericWordIdentifier.__call__ on one sentence
sent_alpha_words(sent, words) == [words EXCEPT !.alpha_words = SelectSeq(sent.tokens, is_word)]

\* ContentWordIdentifier.__call__ on one sentence
sent_content_words(sent, words) ==
    LET content_words == SelectSeq(sent.tokens, is_content_word)
    IN  [words EXCEPT !.content_words = content_words,
                      !.content_words_count = Len(content_words)]

\* token.morph. A model whose fine-grained tags spell the features
\* ('PRON__Person=3|PronType=Prs') gives the same features in tag_ and in
\* morph; a model with coarse tags ('PRON') gives them in morph alone, and
\* such a token carries its morph beside its tag.
token_morph(token) == IF "morph" \in DOMAIN token THEN token.morph ELSE token.tag

\* CohesionWordsTokenizer.__call__ on one sentence
CohesionWordsTokenizer(words) ==
    [words EXCEPT
        !.unique_nouns = TextLower(SelectSeq(words.alpha_words, LAMBDA t : t.pos = "NOUN")),
        !.unique_noun_lemmas = LemmaLower(SelectSeq(words.alpha_words, LAMBDA t : t.pos = "NOUN")),
        !.unique_content_words = TextLower(words.content_words),
        !.unique_content_word_lemmas = LemmaLower(words.content_words),
        !.unique_pronouns = TextLower(SelectSeq(words.alpha_words, LAMBDA t : t.pos = "PRON")),
        !.unique_personal_pronouns =
            TextLower(SelectSeq(words.alpha_words, LAMBDA t : "PronType=Prs" \in token_morph(t)))]

\* a noun overlap that takes any shared word for a shared noun
noun_overlap_of_any_word(prev_sentence, cur_sentence) ==
    IF \E i \in 1..Len(cur_sentence.alpha_words) :
           Lower(cur_sentence.alpha_words[i].text) \in TextLower(prev_sentence.alpha_words)
    THEN 1 ELSE 0

\* overlap_analyzers.analyze_noun_overlap
noun_overlap(prev_sentence, cur_sentence) ==
    IF \E i \in 1..Len(cur_sentence.alpha_words) :
           /\ cur_sentence.alpha_words[i].pos = "NOUN"
           /\ Lower(cur_sentence.alpha_words[i].text) \in prev_sentence.unique_nouns
    THEN 1 ELSE 0

\* a content word overlap that adds one for a match
content_word_overlap_by_one(prev_sentence, cur_sentence) ==
    LET total_tokens == prev_sentence.content_words_count + cur_sentence.content_words_count
        matches == Len(SelectSeq(cur_sentence.content_words,
                                 LAMBDA t : Lower(t.text) \in prev_sentence.unique_content_words))
    IN  IF total_tokens = 0 THEN FInt(0) ELSE Frac(matches, total_tokens)

\* overlap_analyzers.analyze_content_word_overlap
content_word_overlap(prev_sentence, cur_sentence) ==
    LET total_tokens == prev_sentence.content_words_count + cur_sentence.content_words_count
        matches == 2 * Len(SelectSeq(cur_sentence.content_words,
                                     LAMBDA t : Lower(t.text) \in prev_sentence.unique_content_words))
    IN  IF total_tokens = 0 THEN FInt(0) ELSE Frac(matches, total_tokens)

NoOverlap == [noun |-> NoneValue, content_word |-> NoneValue]

CohIdle ==
    /\ coPrev = <<>> /\ coCur = <<>> /\ coWords = <<>>
    /\ coOverlap = NoOverlap /\ coAdjacent = NoOverlap

CohInit ==
    /\ \/ coPrev \in PairSentences(MaxPairTokens) /\ coCur \in PairSentences(MaxPairTokens)
       \/ coPrev = PerroCorre /\ coCur = GatoCorre
    /\ coWords = <<>>
    /\ coOverlap = NoOverlap
    /\ coAdjacent = NoOverlap

\* nlp(text) up to the cohesion words tokenizer
CallCohesionWordsTokenizer ==
    /\ coWords = <<>>
    /\ coWords' = [sent \in {"prev", "cur"} |->
                      LET span == IF sent = "prev" THEN coPrev ELSE coCur
                      IN  CohesionWordsTokenizer(
                              sent_content_words(span, sent_alpha_words(span, NoWords)))]
    /\ UNCHANGED <<coPrev, coCur, coOverlap, coAdjacent, apiVars, tagVars, pipeVars,
                   buildVars, concVars, lexVars, sizeVars, pairVars, sentVars, countVars, descVars>>

\* the overlap analyzers of the pipes on the two sentences
AnalyzeOverlap ==
    /\ coWords # <<>>
    /\ coOverlap = NoOverlap
    /\ coOverlap' = [noun |-> FInt(noun_overlap(coWords["prev"], coWords["cur"])),
                     content_word |-> content_word_overlap(coWords["prev"], coWords["cur"])]
    /\ UNCHANGED <<coPrev, coCur, coWords, coAdjacent, apiVars, tagVars, pipeVars,
                   buildVars, concVars, lexVars, sizeVars, pairVars, sentVars, countVars, descVars>>

\* get_noun_overlap_adjacent_sentences and
\* get_content_word_overlap_adjacent_sentences of ReferentialCohesionIndices on
\* the text of the two sentences
CalculateAdjacentOverlap ==
    /\ coAdjacent = NoOverlap
    /\ coAdjacent' =
           [noun |-> calculate_overlap_for_adjacent_sentences(
                         PairText(coPrev, coCur), "analyze_noun_overlap", "mean", 0 - 1).val.mean,
            content_word |-> calculate_overlap_for_adjacent_sentences(
                                 PairText(coPrev, coCur), "analyze_content_word_overlap",
                                 "all", 0 - 1).val.mean]
    /\ UNCHANGED <<coPrev, coCur, coWords, coOverlap, apiVars, tagVars, pipeVars,
                   buildVars, concVars, lexVars, sizeVars, pairVars, sentVars, countVars, descVars>>

CohNext == CallCohesionWordsTokenizer \/ AnalyzeOverlap \/ CalculateAdjacentOverlap

(***************************************************************************)
(* The two generations of overlap analyzers on one pair of sentences: those *)
(* of overlap_analyzers read the words and sets the pipes stored on the     *)
(* sentences, those of referential_cohesion_indices walk the tokens.        *)
(***************************************************************************)
\* 'ella' as a model with coarse tags gives it: tag_ is 'PRON'
tEllaCoarse ==
    [text |-> "ella", lemma |-> "él", pos |-> "PRON", is_alpha |-> TRUE, letters |-> 4,
     syllables |-> 2, tag |-> {"PRON"}, root |-> FALSE,
     morph |-> {"Number=Sing", "Person=3", "PronType=Prs"}]

tAna == Tok("Ana", "Ana", "PROPN", TRUE, 3, 2, {}, FALSE)

\* the tokens of one model: its pronoun is tagged in one of the two ways
OverlapTokens(pronoun) == {tPerro, tPerroCap, tPerro2, tVe, tAna, pronoun}

OverlapSentences(pronoun) ==
    {SentenceOf(tokens) : tokens \in SeqsUpTo(OverlapTokens(pronoun), MaxPairTokens) \ {<<>>}}

\* overlap_analyzers.analyze_argument_overlap
argument_overlap(prev_sentence, cur_sentence) ==
    IF \E i \in 1..Len(cur_sentence.alpha_words) :
           LET token == cur_sentence.alpha_words[i]
           IN  \/ /\ token.pos = "NOUN"
                  /\ Lower(token.lemma) \in prev_sentence.unique_noun_lemmas
               \/ /\ "PronType=Prs" \in token_morph(token)
                  /\ Lower(token.text) \in prev_sentence.unique_personal_pronouns
    THEN 1 ELSE 0

\* overlap_analyzers.analyze_stem_overlap
stem_overlap(prev_sentence, cur_sentence) ==
    IF \E i \in 1..Len(cur_sentence.alpha_words) :
           /\ cur_sentence.alpha_words[i].pos \in {"NOUN", "PROPN"}
           /\ Lower(cur_sentence.alpha_words[i].lemma) \in prev_sentence.unique_content_word_lemmas
    THEN 1 ELSE 0

\* overlap_analyzers.analyze_anaphore_overlap
anaphore_overlap(prev_sentence, cur_sentence) ==
    IF \E i \in 1..Len(cur_sentence.alpha_words) :
           /\ cur_sentence.alpha_words[i].pos = "PRON"
           /\ Lower(cur_sentence.alpha_words[i].text) \in prev_sentence.unique_pronouns
    THEN 1 ELSE 0

OverlapKinds == {"noun", "argument", "stem", "content_word", "anaphore"}

OverlapInit ==
    /\ \E pronoun \in {tElla, tEllaCoarse} :
           coPrev \in OverlapSentences(pronoun) /\ coCur \in OverlapSentences(pronoun)
    /\ coWords = <<>>
    /\ coOverlap = NoOverlap
    /\ coAdjacent = NoOverlap

\* the five analyzers of overlap_analyzers on the two sentences
CallSetBasedAnalyzers ==
    /\ coWords # <<>>
    /\ coOverlap = NoOverlap
    /\ coOverlap' = [noun |-> FInt(noun_overlap(coWords["prev"], coWords["cur"])),
                     argument |-> FInt(argument_overlap(coWords["prev"], coWords["cur"])),
                     stem |-> FInt(stem_overlap(coWords["prev"], coWords["cur"])),
                     content_word |-> content_word_overlap(coWords["prev"], coWords["cur"]),
                     anaphore |-> FInt(anaphore_overlap(coWords["prev"], coWords["cur"]))]
    /\ UNCHANGED <<coPrev, coCur, coWords, coAdjacent, apiVars, tagVars, pipeVars,
                   buildVars, concVars, lexVars, sizeVars, pairVars, sentVars, countVars, descVars>>

\* the five analyzers of referential_cohesion_indices on the same two
CallPerCallAnalyzers ==
    /\ coAdjacent = NoOverlap
    /\ coAdjacent' = [noun |-> analyze_noun_overlap(coPrev, coCur),
                      argument |-> analyze_argument_overlap(coPrev, coCur),
                      stem |-> analyze_stem_overlap(coPrev, coCur),
                      content_word |-> analyze_content_word_overlap(coPrev, coCur),
                      anaphore |-> analyze_anaphore_overlap(coPrev, coCur)]
    /\ UNCHANGED <<coPrev, coCur, coWords, coOverlap, apiVars, tagVars, pipeVars,
                   buildVars, concVars, lexVars, sizeVars, pairVars, sentVars, countVars, descVars>>

OverlapNext == CallCohesionWordsTokenizer \/ CallSetBasedAnalyzers \/ CallPerCallAnalyzers

(***************************************************************************)
(* The length of the text. The analyzer sets nlp.max_length; spaCy looks at *)
(* the length of the string handed to nlp(...), and, depending on its        *)
(* version, at each string handed to nlp.pipe(...).                          *)
(***************************************************************************)
\* self._nlp.max_length
max_length == 3000000

ParagraphLengths == {1, 1500000, max_length, max_length + 1}

RECURSIVE SumOfLengths(_)
SumOfLengths(lengths) ==
    IF lengths = <<>> THEN 0 ELSE Head(lengths) + SumOfLengths(Tail(lengths))

\* len(text): the paragraphs and the '\n\n' between them
TextLength(paragraphs) == SumOfLengths(paragraphs) + 2 * (Len(paragraphs) - 1)

\* nlp(text): Language.__call__ raises the error E088, a ValueError, for a
\* text longer than max_length
nlp_call(paragraphs) ==
    IF TextLength(paragraphs) > max_length THEN "ValueError" ELSE "none"

\* nlp.pipe(paragraphs): each paragraph is a text of its own
nlp_pipe(paragraphs, checks) ==
    IF checks /\ \E i \in 1..Len(paragraphs) : paragraphs[i] > max_length
    THEN "ValueError" ELSE "none"

\* what a calculate_<family>_indices_for_one_text call does with the text:
\* err is what it raises, computed what it had computed by then
CalculateWithLength(family, op, paragraphs, checks) ==
    CASE family = "referential_cohesion" ->
            IF nlp_call(paragraphs) # "none"
            THEN [err |-> nlp_call(paragraphs), computed |-> <<>>]
            ELSE [err |-> "none", computed |-> <<family>>]
      [] family = "descriptive" ->
            IF nlp_pipe(paragraphs, checks) # "none"
            THEN [err |-> nlp_pipe(paragraphs, checks), computed |-> <<"DESPC">>]
            ELSE [err |-> "none", computed |-> <<"DESPC", family>>]
      [] family = "readability" /\ op # family ->
            [err |-> "none", computed |-> <<family>>]
      [] OTHER ->
            IF nlp_pipe(paragraphs, checks) # "none"
            THEN [err |-> nlp_pipe(paragraphs, checks), computed |-> <<>>]
            ELSE [err |-> "none", computed |-> <<family>>]

SizeIdle ==
    /\ szParagraphs = <<>> /\ szPipeChecks = FALSE
    /\ szOp = "none" /\ szPc = "idle" /\ szOutcome = "none" /\ szComputed = <<>>

SizeInit ==
    /\ szParagraphs \in SeqsUpTo(ParagraphLengths, MaxParagraphs) \ {<<>>}
    /\ szPipeChecks \in BOOLEAN
    /\ szOp = "none" /\ szPc = "idle" /\ szOutcome = "none" /\ szComputed = <<>>

\* a calculate_<family>_indices_for_one_text(text) call from outside
SizeCallFamily ==
    /\ szPc = "idle"
    /\ \E family \in FamilyOps : szOp' = family /\ szPc' = family
    /\ UNCHANGED <<szParagraphs, szPipeChecks, szOutcome, szComputed, apiVars, tagVars,
                   pipeVars, buildVars, concVars, lexVars, cohVars, pairVars, sentVars, countVars, descVars>>

\* calculate_all_indices_for_one_text(text) and predict_text_category(text),
\* up to the first stage
SizeCallAll ==
    /\ szPc = "idle"
    /\ szOp' \in {"all", "predict"}
    /\ szPc' = "descriptive"
    /\ UNCHANGED <<szParagraphs, szPipeChecks, szOutcome, szComputed, apiVars, tagVars,
                   pipeVars, buildVars, concVars, lexVars, cohVars, pairVars, sentVars, countVars, descVars>>

\* one calculate_* call: alone, or as a stage of calculate_all
SizeStage ==
    /\ szPc \in FamilyOps
    /\ LET res == CalculateWithLength(szPc, szOp, szParagraphs, szPipeChecks)
       IN  /\ szComputed' = szComputed \o res.computed
           /\ IF res.err # "none" THEN szPc' = "done" /\ szOutcome' = res.err
              ELSE IF szOp = szPc \/ (szOp = "all" /\ NextFamily(szPc) = "return")
              THEN szPc' = "done" /\ szOutcome' = "returned"
              ELSE /\ szPc' = IF NextFamily(szPc) = "return" THEN "classify"
                               ELSE NextFamily(szPc)
                   /\ UNCHANGED szOutcome
    /\ UNCHANGED <<szParagraphs, szPipeChecks, szOp, apiVars, tagVars, pipeVars, buildVars,
                   concVars, lexVars, cohVars, pairVars, sentVars, countVars, descVars>>

\* the end of predict_text_category
SizeClassify ==
    /\ szPc = "classify"
    /\ szPc' = "done"
    /\ szOutcome' = "returned"
    /\ szComputed' = Append(szComputed, "category")
    /\ UNCHANGED <<szParagraphs, szPipeChecks, szOp, apiVars, tagVars, pipeVars, buildVars,
                   concVars, lexVars, cohVars, pairVars, sentVars, countVars, descVars>>

SizeNext == SizeCallFamily \/ SizeCallAll \/ SizeStage \/ SizeClassify

(***************************************************************************)
(* The two analyzer pipes on a document: which pairs of sentences they hand *)
(* to the function they hold. The function held here gives back the places  *)
(* of the two sentences it was called with.                                  *)
(***************************************************************************)
tSpace == Tok(" ", " ", "SPACE", FALSE, 1, 0, {}, FALSE)

\* the sentences of doc.sents: a sentence has words or is only whitespace, and
\* it begins a paragraph or goes on in one
SentenceShapes == [blank : BOOLEAN, paragraph_start : BOOLEAN]

\* the sentence at a place of the document
SentenceAt(shapes, place) ==
    [place |-> place,
     paragraph |-> Cardinality({k \in 1..place : k = 1 \/ shapes[k].paragraph_start}),
     tokens |-> IF shapes[place].blank THEN <<tSpace>> ELSE <<tPerro, tVe, tDot>>]

DocOfShapes(shapes) == [place \in 1..Len(shapes) |-> SentenceAt(shapes, place)]

\* ReferentialCohesionAdjacentSentencesAnalyzer.__call__ with its check of the
\* function held
AdjacentSentencesAnalyzer_call(doc, sentence_analyzer) ==
    IF sentence_analyzer = "None" THEN Raise("AttributeError")
    ELSE Ok(ReferentialCohesionAdjacentSentencesAnalyzer(doc, sentence_analyzer))

\* ReferentialCohesionAllSentencesAnalyzer.__call__ with its check of the
\* function held
AllSentencesAnalyzer_call(doc, sentence_analyzer) ==
    IF sentence_analyzer = "None" THEN Raise("AttributeError")
    ELSE Ok(ReferentialCohesionAllSentencesAnalyzer(doc, sentence_analyzer))

NotCalled == [err |-> "not called", val |-> <<>>]

PairIdle ==
    prDoc = <<>> /\ prAnalyzer = "None" /\ prAdjacent = NotCalled /\ prAll = NotCalled

PairInit ==
    /\ prDoc \in {DocOfShapes(shapes) : shapes \in SeqsUpTo(SentenceShapes, MaxDocSentences)}
    /\ prAnalyzer \in {"None", "places"}
    /\ prAdjacent = NotCalled
    /\ prAll = NotCalled

\* the adjacent sentences analyzer called on the document
CallAdjacentSentencesAnalyzer ==
    /\ prAdjacent = NotCalled
    /\ prAdjacent' = AdjacentSentencesAnalyzer_call(prDoc, prAnalyzer)
    /\ UNCHANGED <<prDoc, prAnalyzer, prAll, apiVars, tagVars, pipeVars, buildVars, concVars,
                   lexVars, cohVars, sizeVars, sentVars, countVars, descVars>>

\* the all sentences analyzer called on the document
CallAllSentencesAnalyzer ==
    /\ prAll = NotCalled
    /\ prAll' = AllSentencesAnalyzer_call(prDoc, prAnalyzer)
    /\ UNCHANGED <<prDoc, prAnalyzer, prAdjacent, apiVars, tagVars, pipeVars, buildVars,
                   concVars, lexVars, cohVars, sizeVars, sentVars, countVars, descVars>>

PairNext == CallAdjacentSentencesAnalyzer \/ CallAllSentencesAnalyzer

(***************************************************************************)
(* One sentence that is the whole document, as the parser and the tagger    *)
(* left it: the words before its main verb, counted by the pipe and by the  *)
(* function of the text API, and its verbs, counted by the informative word *)
(* tagger and by the verb counter of the text API.                          *)
(***************************************************************************)
MaxSentTokens == 3

tHa == Tok("ha", "haber", "AUX", TRUE, 2, 1, {"VerbForm=Fin", "Person=3"}, FALSE)

tEs == Tok("es", "ser", "AUX", TRUE, 2, 1, {"VerbForm=Fin", "Person=3"}, TRUE)

tVisto == Tok("visto", "ver", "VERB", TRUE, 5, 2, {"VerbForm=Part"}, FALSE)

\* a verb written with a digit, which the tagger and the parser took for the root verb
tD1ce == Tok("d1ce", "d1ce", "VERB", FALSE, 4, 2, {"VerbForm=Fin"}, TRUE)

SentTokens == {tEl, tPerro, tVe, tDot, tHa, tEs, tVisto, tD1ce}

\* sent._.alpha_words, as AlphanumericWordIdentifier writes it
alpha_words_of(tokens) == SelectSeq(tokens, is_word)

\* WordsBeforeMainVerbCounter.__call__: the loop over sent._.alpha_words
RECURSIVE left_words(_)
left_words(words) ==
    IF words = <<>> \/ IsMainVerb(Head(words)) THEN 0
    ELSE 1 + left_words(Tail(words))

count_of_words_before_main_verb(tokens) == left_words(alpha_words_of(tokens))

\* the features whose name is VerbForm
VerbForms == {"VerbForm=Fin", "VerbForm=Inf", "VerbForm=Part", "VerbForm=Ger"}

\* InformativeWordTagger.__call__: sent._.verbs
sent_verbs(tokens) ==
    SelectSeq(alpha_words_of(tokens),
              LAMBDA t : t.pos = "VERB" \/ (t.pos = "AUX" /\ t.tag \cap VerbForms # {}))

\* WordInformationIndices.__get_verb_incidence of the pipes
get_verb_incidence_of_doc(verbs_count, alpha_words_count) ==
    IF alpha_words_count = 0 THEN Raise("ZeroDivisionError")
    ELSE Ok(FMul(Frac(verbs_count, alpha_words_count), FInt(Incidence)))

SentIdle ==
    /\ snTokens = <<>>
    /\ snBeforePipe = NotCalled /\ snBeforeFunction = NotCalled
    /\ snVerbs = NotCalled /\ snWRDVERB = NotCalled /\ snVerbIncidence = NotCalled

SentInit ==
    /\ snTokens \in SeqsUpTo(SentTokens, MaxSentTokens) \ {<<>>}
    /\ snBeforePipe = NotCalled /\ snBeforeFunction = NotCalled
    /\ snVerbs = NotCalled /\ snWRDVERB = NotCalled /\ snVerbIncidence = NotCalled

\* the words before main verb counter pipe called on the document
RunWordsBeforeMainVerbCounter ==
    /\ snBeforePipe = NotCalled
    /\ snBeforePipe' = Ok(count_of_words_before_main_verb(snTokens))
    /\ UNCHANGED <<snTokens, snBeforeFunction, snVerbs, snWRDVERB, snVerbIncidence,
                   apiVars, tagVars, pipeVars, buildVars, concVars, lexVars, cohVars,
                   sizeVars, pairVars, countVars, descVars>>

\* amount_of_words_before_main_verb(sentence), the feature counter's function
CallAmountOfWordsBeforeMainVerb ==
    /\ snBeforeFunction = NotCalled
    /\ snBeforeFunction' = Ok(amount_of_words_before_main_verb(SentenceOf(snTokens)))
    /\ UNCHANGED <<snTokens, snBeforePipe, snVerbs, snWRDVERB, snVerbIncidence,
                   apiVars, tagVars, pipeVars, buildVars, concVars, lexVars, cohVars,
                   sizeVars, pairVars, countVars, descVars>>

\* the informative word tagger pipe called on the document
RunSentInformativeWordTagger ==
    /\ snVerbs = NotCalled
    /\ snVerbs' = Ok(sent_verbs(snTokens))
    /\ UNCHANGED <<snTokens, snBeforePipe, snBeforeFunction, snWRDVERB, snVerbIncidence,
                   apiVars, tagVars, pipeVars, buildVars, concVars, lexVars, cohVars,
                   sizeVars, pairVars, countVars, descVars>>

\* the word information pipe, after the tagger: doc._.verbs_count and
\* doc._.alpha_words_count are those of the one sentence
RunSentWordInformationIndices ==
    /\ snVerbs # NotCalled /\ snWRDVERB = NotCalled
    /\ snWRDVERB' = get_verb_incidence_of_doc(Len(snVerbs.val), Len(alpha_words_of(snTokens)))
    /\ UNCHANGED <<snTokens, snBeforePipe, snBeforeFunction, snVerbs, snVerbIncidence,
                   apiVars, tagVars, pipeVars, buildVars, concVars, lexVars, cohVars,
                   sizeVars, pairVars, countVars, descVars>>

\* WordInformationIndices.get_verb_incidence(text) of the text API
CallGetVerbIncidence ==
    /\ snVerbIncidence = NotCalled
    /\ snVerbIncidence' =
           get_verb_incidence(<<[blank |-> FALSE, sents |-> <<SentenceOf(snTokens)>>]>>,
                              NoneValue, 1)
    /\ UNCHANGED <<snTokens, snBeforePipe, snBeforeFunction, snVerbs, snWRDVERB,
                   apiVars, tagVars, pipeVars, buildVars, concVars, lexVars, cohVars,
                   sizeVars, pairVars, countVars, descVars>>

SentNext ==
    \/ RunWordsBeforeMainVerbCounter
    \/ CallAmountOfWordsBeforeMainVerb
    \/ RunSentInformativeWordTagger
    \/ RunSentWordInformationIndices
    \/ CallGetVerbIncidence

(***************************************************************************)
(* The incidence and density getters of the text API called with a          *)
(* word_count of the caller's, and the paragraphs of the text.              *)
(***************************************************************************)
MaxTextPieces == 3

\* the word counts a caller hands over: none, or a number that need not be
\* the number of words of the text
WordCounts == {NoneValue, FInt(1), FInt(7)}

IncidenceGetters == {"get_verb_incidence", "get_causal_connectives_incidence",
                     "get_noun_phrase_density"}

TextGetters ==
    IncidenceGetters \cup {"split_text_into_paragraphs", "get_paragraph_count_from_text"}

CountIdle ==
    wcText = <<>> /\ wcWordCount = NoneValue /\ wcResults = [g \in TextGetters |-> NotCalled]

CountInit ==
    /\ wcText \in Texts(MaxTextPieces, MaxSentences)
    /\ wcWordCount \in WordCounts
    /\ wcResults = [g \in TextGetters |-> NotCalled]

CallTextGetter(getter, res) ==
    /\ wcResults[getter] = NotCalled
    /\ wcResults' = [wcResults EXCEPT ![getter] = res]
    /\ UNCHANGED <<wcText, wcWordCount, apiVars, tagVars, pipeVars, buildVars, concVars,
                   lexVars, cohVars, sizeVars, pairVars, sentVars, descVars>>

\* WordInformationIndices.get_verb_incidence(text, word_count=word_count)
CallVerbIncidenceWithWordCount ==
    CallTextGetter("get_verb_incidence", get_verb_incidence(wcText, wcWordCount, 1))

\* ConnectiveIndices.get_causal_connectives_incidence(text, word_count=word_count)
CallCausalConnectivesIncidenceWithWordCount ==
    CallTextGetter("get_causal_connectives_incidence",
                        get_connectives_incidence(wcText, "causal", wcWordCount, 1))

\* SyntacticPatternDensityIndices.get_noun_phrase_density(text, word_count=word_count)
CallNounPhraseDensityWithWordCount ==
    CallTextGetter("get_noun_phrase_density",
                        get_noun_phrase_density(wcText, wcWordCount, 1))

\* split_text_into_paragraphs(text)
CallSplitTextIntoParagraphs ==
    CallTextGetter("split_text_into_paragraphs", Ok(split_text_into_paragraphs(wcText)))

\* DescriptiveIndices.get_paragraph_count_from_text(text)
CallGetParagraphCountFromText ==
    CallTextGetter("get_paragraph_count_from_text", get_paragraph_count_from_text(wcText))

CountNext ==
    \/ CallSplitTextIntoParagraphs
    \/ CallGetParagraphCountFromText
    \/ CallVerbIncidenceWithWordCount
    \/ CallCausalConnectivesIncidenceWithWordCount
    \/ CallNounPhraseDensityWithWordCount

(***************************************************************************)
(* calculate_descriptive_indices_for_one_text on texts whose paragraphs     *)
(* have different numbers of sentences. The sentences are those of the      *)
(* sentencizer, which ends a sentence at a punctuation mark: in a           *)
(* paragraph, which is stripped, none of them is only whitespace.           *)
(***************************************************************************)
MaxParagraphSentences == 2

\* the pieces of a text: empty, only whitespace, or one to
\* MaxParagraphSentences sentences of one kind
DescPieces ==
    {EmptyPiece, BlankPiece}
        \cup {[blank |-> FALSE, sents |-> ss] :
                 ss \in {ss \in SeqsUpTo(SentenceKinds, MaxParagraphSentences) \ {<<>>} :
                            \A i \in 1..Len(ss) : ss[i] = ss[1]}}

DescIdle == dsText = <<>> /\ dsWorkers = 0 /\ dsIndices = NotCalled

DescInit ==
    /\ dsText \in SeqsUpTo(DescPieces, MaxTextPieces) \ {<<>>}
    /\ dsWorkers \in Workers
    /\ dsIndices = NotCalled

\* TextComplexityAnalyzer.calculate_descriptive_indices_for_one_text(text, workers)
CallCalculateDescriptiveIndices ==
    /\ dsIndices = NotCalled
    /\ dsIndices' = calculate_descriptive_indices_for_one_text(dsText, dsWorkers)
    /\ UNCHANGED <<dsText, dsWorkers, apiVars, tagVars, pipeVars, buildVars, concVars,
                   lexVars, cohVars, sizeVars, pairVars, sentVars, countVars>>

DescNext == CallCalculateDescriptiveIndices

DescSpecInit ==
    DescInit /\ ApiIdle /\ TagIdle /\ PipeIdle /\ BuildIdle /\ ConcIdle /\ LexIdle /\ CohIdle
        /\ SizeIdle /\ PairIdle /\ SentIdle /\ CountIdle

SpecDesc == DescSpecInit /\ [][DescNext]_vars

CountSpecInit ==
    CountInit /\ ApiIdle /\ TagIdle /\ PipeIdle /\ BuildIdle /\ ConcIdle /\ LexIdle /\ CohIdle
        /\ SizeIdle /\ PairIdle /\ SentIdle /\ DescIdle

SpecCount == CountSpecInit /\ [][CountNext]_vars

SentSpecInit ==
    SentInit /\ ApiIdle /\ TagIdle /\ PipeIdle /\ BuildIdle /\ ConcIdle /\ LexIdle /\ CohIdle
        /\ SizeIdle /\ PairIdle /\ CountIdle /\ DescIdle

SpecSent == SentSpecInit /\ [][SentNext]_vars

OverlapSpecInit ==
    OverlapInit /\ ApiIdle /\ TagIdle /\ PipeIdle /\ BuildIdle /\ ConcIdle /\ LexIdle /\ SizeIdle /\ PairIdle /\ SentIdle /\ CountIdle /\ DescIdle

SpecOverlap == OverlapSpecInit /\ [][OverlapNext]_vars

CohSpecInit ==
    CohInit /\ ApiIdle /\ TagIdle /\ PipeIdle /\ BuildIdle /\ ConcIdle /\ LexIdle /\ SizeIdle /\ PairIdle /\ SentIdle /\ CountIdle /\ DescIdle

SpecCoh == CohSpecInit /\ [][CohNext]_vars

SizeSpecInit ==
    SizeInit /\ ApiIdle /\ TagIdle /\ PipeIdle /\ BuildIdle /\ ConcIdle /\ LexIdle /\ CohIdle /\ PairIdle /\ SentIdle /\ CountIdle /\ DescIdle

SpecSize == SizeSpecInit /\ [][SizeNext]_vars

PairSpecInit ==
    PairInit /\ ApiIdle /\ TagIdle /\ PipeIdle /\ BuildIdle /\ ConcIdle /\ LexIdle /\ CohIdle
        /\ SizeIdle /\ SentIdle /\ CountIdle /\ DescIdle

SpecPairs == PairSpecInit /\ [][PairNext]_vars

PipeSpecInit == PipeInit /\ ApiIdle /\ TagIdle /\ BuildIdle /\ ConcIdle /\ LexIdle /\ CohIdle /\ SizeIdle /\ PairIdle /\ SentIdle /\ CountIdle /\ DescIdle

SpecPipe == PipeSpecInit /\ [][PipeNext]_vars

TagSpecInit == TagInit /\ ApiIdle /\ PipeIdle /\ BuildIdle /\ ConcIdle /\ LexIdle /\ CohIdle /\ SizeIdle /\ PairIdle /\ SentIdle /\ CountIdle /\ DescIdle

SpecTag == TagSpecInit /\ [][TagNext]_vars

ApiSpecInit == ApiInit /\ TagIdle /\ PipeIdle /\ BuildIdle /\ ConcIdle /\ LexIdle /\ CohIdle /\ SizeIdle /\ PairIdle /\ SentIdle /\ CountIdle /\ DescIdle

SpecApi == ApiSpecInit /\ [][ApiNext]_vars

StagesInit ==
    /\ \/ ApiInit /\ BuildIdle
       \/ BuildInit /\ ApiIdle
    /\ TagIdle /\ PipeIdle /\ ConcIdle /\ LexIdle /\ CohIdle /\ SizeIdle /\ PairIdle /\ SentIdle /\ CountIdle /\ DescIdle

\* calculate_all_indices_for_one_text and predict_text_category with their
\* stages, and the building and calling of a pipeline
StagesNext ==
    \/ CallAll
    \/ CallPredict
    \/ StageDescriptive
    \/ StageWordInformation
    \/ StageSyntacticPattern
    \/ StageSyntacticComplexity
    \/ StageConnective
    \/ StageLexicalDiversity
    \/ StageReadability
    \/ StageReferentialCohesion
    \/ Classify
    \/ BuildNext

SpecStages == StagesInit /\ [][StagesNext]_vars

LexSpecInit ==
    LexInit /\ ApiIdle /\ TagIdle /\ PipeIdle /\ BuildIdle /\ ConcIdle /\ CohIdle /\ SizeIdle /\ PairIdle /\ SentIdle /\ CountIdle /\ DescIdle

SpecLex == LexSpecInit /\ [][LexNext]_vars

ConcSpecInit == ConcInit /\ ApiIdle /\ TagIdle /\ PipeIdle /\ BuildIdle /\ LexIdle /\ CohIdle /\ SizeIdle /\ PairIdle /\ SentIdle /\ CountIdle /\ DescIdle

SpecConc == ConcSpecInit /\ [][ConcNext]_vars

(***************************************************************************)
(* C1: after a successful calculate_all_indices_for_one_text the merge of   *)
(* the eight dictionaries has exactly the 48 codes of the index list as its *)
(* keys, and no code is written by two reducers.                            *)
(***************************************************************************)
C1_MergedKeysAreTheIndexList ==
    (apiOp = "all" /\ apiPc = "done" /\ apiOutcome = "returned") =>
        /\ Len(apiDicts) = 8
        /\ DOMAIN MergeDicts(apiDicts) = Range(classifier_indices)
        /\ Cardinality(DOMAIN MergeDicts(apiDicts)) = 48
        /\ \A i \in 1..Len(apiDicts) : \A j \in 1..Len(apiDicts) :
               i # j => DOMAIN apiDicts[i] \cap DOMAIN apiDicts[j] = {}

C1_Witness ==
    /\ apiOp = "all" /\ apiPc = "done" /\ apiOutcome = "returned"
    /\ Len(apiText) = 2 /\ apiText[1] # apiText[2]

(***************************************************************************)
(* C4: every operation of TextComplexityAnalyzer called with a text of      *)
(* length 0 and a valid worker count ends in ValueError, with no dictionary *)
(* and no category returned.                                                *)
(***************************************************************************)
C4_EmptyTextRaisesValueError ==
    (TextIsEmpty(apiText) /\ ~InvalidWorkers(apiWorkers) /\ apiOp # "none") =>
        /\ apiDicts = <<>>
        /\ apiCategory = 0
        /\ apiOutcome \in {"none", "ValueError"}
        /\ apiPc = "done" => apiOutcome = "ValueError"
        /\ Len(apiCalls) <= 1

C4_Witness ==
    /\ TextIsEmpty(apiText) /\ ~InvalidWorkers(apiWorkers)
    /\ apiOp = "word_information" /\ apiPc = "done" /\ apiOutcome = "ValueError"

(***************************************************************************)
(* C5: every operation that takes a worker count, called on a non-empty     *)
(* text with workers = 0 or workers < -1, ends in ValueError and returns no *)
(* index value.                                                             *)
(***************************************************************************)
C5_InvalidWorkersRaiseValueError ==
    (~TextIsEmpty(apiText) /\ InvalidWorkers(apiWorkers) /\ apiPc = "done") =>
        apiOutcome = "ValueError" /\ apiDicts = <<>>

(***************************************************************************)
(* C6: for a non-empty text with fewer than two non-empty sentences both    *)
(* pair iterators yield no pair, and a valid call of                        *)
(* calculate_referential_cohesion_indices_for_one_text returns the twelve   *)
(* indices as None: not as 0, and not through an exception.                 *)
(***************************************************************************)
ReferentialCohesionCodes ==
    {"CRFNO1", "CRFNOa", "CRFAO1", "CRFAOa", "CRFSO1", "CRFSOa", "CRFCWO1", "CRFCWO1d",
     "CRFCWOa", "CRFCWOad", "CRFANP1", "CRFANPa"}

FewerThanTwoSentences(text) == Len(split_doc_into_sentences(WholeDoc(text))) < 2

C6_NoPairsGiveNone ==
    (/\ apiOp = "referential_cohesion" /\ apiPc = "done"
     /\ ~InvalidWorkers(apiWorkers)
     /\ ~TextIsEmpty(apiText) /\ FewerThanTwoSentences(apiText)) =>
        /\ AdjacentPairs(split_doc_into_sentences(WholeDoc(apiText))) = <<>>
        /\ AllPairs(split_doc_into_sentences(WholeDoc(apiText))) = <<>>
        /\ apiOutcome = "returned"
        /\ Len(apiDicts) = 1
        /\ DOMAIN apiDicts[1] = ReferentialCohesionCodes
        /\ \A code \in ReferentialCohesionCodes : apiDicts[1][code] = NoneValue

C6_Witness ==
    /\ Len(split_doc_into_sentences(WholeDoc(apiText))) = 1
    /\ ~InvalidWorkers(apiWorkers)
    /\ apiOp = "referential_cohesion" /\ apiPc = "done" /\ apiOutcome = "returned"

(***************************************************************************)
(* C3: the spans a tagger exposes are pairwise disjoint (no token index     *)
(* belongs to two exposed spans of one category) and each exposed span is   *)
(* one of the candidates.                                                   *)
(***************************************************************************)
SpansDisjoint(a, b) == SpanTokens(a) \cap SpanTokens(b) = {}

C3_ExposedDisjoint ==
    tagger # "none" =>
        /\ exposed \subseteq candidates
        /\ \A a \in exposed : \A b \in exposed : a # b => SpansDisjoint(a, b)

C3_Witness ==
    /\ tagger # "none"
    /\ Cardinality(exposed) >= 2
    /\ \E a \in candidates : \E b \in candidates : a # b /\ ~SpansDisjoint(a, b)

Ran(pipe) == pipe \in Range(pRan)

\* the number of tokens of the document for which is_word is true
WordTokens(doc) == Cardinality({i \in 0..(Len(doc) - 1) : KindIsAlpha(TokenAt(doc, i).kind)})

\* C2: for every non-empty text and every way its tokens fall into paragraphs
\* and sentences, the word count of the document after Paragraphizer and
\* AlphanumericWordIdentifier ran once (DESWC) is the number of tokens that
\* are words: each is counted exactly once.
C2_WordCountIsTheWordTokens ==
    (Len(pDoc) > 0 /\ pOutcome = "ok" /\ Ran("alphanumeric_word_identifier"))
        => pUpstream.doc_alpha_words_count = WordTokens(pDoc)

ReducerNames == {"descriptive_indices", "word_information_indices", "readability_indices"}

\* the fields of the dictionaries' record a reducer writes as its own
OwnFields(pipe) ==
    IF pipe = "descriptive_indices" THEN {"descriptive_indices", "sentences_with_content"}
    ELSE {pipe}

\* C9: a step of a reducer pipe (DescriptiveIndices, ReadabilityIndices,
\* WordInformationIndices) changes only what that reducer keeps for itself:
\* the document, the upstream annotations, the spans of the taggers and the
\* dictionaries of the other reducers are as before.
C9_ReducersChangeOnlyTheirOwnDictionary ==
    [][\A pipe \in ReducerNames :
          pRan' = Append(pRan, pipe) =>
              /\ pUpstream' = pUpstream
              /\ pDoc' = pDoc
              /\ exposed' = exposed
              /\ \A f \in DOMAIN pIndices \ OwnFields(pipe) : pIndices'[f] = pIndices[f]]_vars

C9_Witness ==
    /\ pOutcome = "ok"
    /\ \A pipe \in ReducerNames : Ran(pipe)
    /\ "DESWC" \in DOMAIN pIndices.descriptive_indices
    /\ "WRDNOUN" \in DOMAIN pIndices.word_information_indices
    /\ "RDFHGL" \in DOMAIN pIndices.readability_indices
    /\ pUpstream.doc_alpha_words_count > 0

\* the paragraphs one after the other, as token indices
ParagraphTokens(paragraphs) == Concat(Map(SpanTokenSeq, paragraphs))

\* the re-joined text: the tokens of the paragraphs, in order
Rejoined(doc, paragraphs) == Map(LAMBDA i : TokenAt(doc, i), ParagraphTokens(paragraphs))

\* C10: for every token sequence and every placement of delimiters, the
\* paragraphs of Paragraphizer, one after the other, are the whole document
\* (every token in exactly one paragraph, in order), and segmenting the
\* re-joined text again gives as many paragraphs with the same boundaries.
C10_SegmentationRoundTrip ==
    Ran("paragraphizer") =>
        /\ pRan[1] = "paragraphizer" => pOutcome = "ok"
        /\ pOutcome = "ok" =>
            /\ ParagraphTokens(pUpstream.paragraphs) = [k \in 1..Len(pDoc) |-> k - 1]
            /\ LET again == Rejoined(pDoc, pUpstream.paragraphs)
                   loop == ParagraphLoop(again, DelimiterMatches(again, pDelimiter, 0), 0, <<>>)
               IN  loop.err = "none" /\ loop.val = pUpstream.paragraphs

\* the pipes called before the i-th call of the current nlp(text)
CalledBefore(i) == {nlpCalled[j] : j \in 1..(i - 1)}

\* what the descriptive stage computes for a text
DescriptiveValues(text, workers) ==
    [word_count |-> get_word_count_from_text(text, workers).val,
     mean_words_per_sentence |-> get_length_of_sentences(text, workers).val.mean,
     mean_syllables_per_word |-> get_syllables_per_word(text, workers).val.mean]

C7_EachComputationReturnsItsOwnMetric ==
    \A c \in Computations : cPc[c] = "done" => cResult[c] = RunAlone(cMetric[c], cText[c])

\* the words of a text, over all its paragraphs
TextWords(text) == SelectSeq(Concat(Map(DocTokens, split_text_into_paragraphs(text))), is_word)

\* 0 <= value <= 1
InUnitInterval(value) == value.den > 0 /\ 0 <= value.num /\ value.num <= value.den

\* C11: for a non-empty text (and a valid worker count) the lexical diversity
\* call returns, LDTTRa and LDTTRcw lie in [0, 1], and a text with no words
\* gets LDTTRa = LDTTRcw = 0 and no exception.
C11_TypeTokenRatiosInUnitInterval ==
    (apiOp = "lexical_diversity" /\ apiPc = "done"
        /\ ~TextIsEmpty(apiText) /\ ~InvalidWorkers(apiWorkers)) =>
        /\ apiOutcome = "returned"
        /\ InUnitInterval(apiDicts[1]["LDTTRa"])
        /\ InUnitInterval(apiDicts[1]["LDTTRcw"])
        /\ TextWords(apiText) = <<>> =>
              apiDicts[1]["LDTTRa"] = FInt(0) /\ apiDicts[1]["LDTTRcw"] = FInt(0)

C11_Witness ==
    /\ apiOp = "lexical_diversity" /\ apiPc = "done" /\ apiOutcome = "returned"
    /\ ~TextIsEmpty(apiText) /\ TextWords(apiText) = <<>>
    /\ apiDicts[1]["LDTTRa"] = FInt(0)

\* the 21 expressions of the additive class
AdditiveExpressions ==
    {<<"asimismo">>, <<"igualmente">>, <<"de", "igual", "modo">>,
     <<"de", "igual", "manera">>, <<"de", "igual", "forma">>,
     <<"del", "mismo", "modo">>, <<"de", "la", "misma", "manera">>,
     <<"de", "la", "misma", "forma">>, <<"en", "primer", "lugar">>,
     <<"en", "segundo", "lugar">>, <<"en", "tercer", "lugar">>,
     <<"en", "último", "lugar">>, <<"por", "su", "parte">>, <<"por", "otro", "lado">>,
     <<"además">>, <<"encima">>, <<"es", "más">>, <<"por", "añadidura">>, <<"incluso">>,
     <<"inclusive">>, <<"para", "colmo">>}

\* the spans of a class counted in the document, each class resolved alone
ClassCount(class, doc) == Cardinality(FilterSpans(PhraseMatcher(Connectives(class), doc)))

\* C12: for a text with at least one word, CNCAll is 1000 x (the causal,
\* logical, adversative, temporal and additive span counts together) / word
\* count, which is the sum of the five class incidences; each class is
\* resolved alone, so a run matched by two classes counts once in each.
C12_AllConnectivesIsTheSumOfTheClasses ==
    (lxOutcome # "none" /\ Len(lxDoc) > 0) =>
        /\ lxOutcome = "returned"
        /\ lxIndices["CNCAll"] =
               Frac(Incidence * (ClassCount("causal", lxDoc) + ClassCount("logical", lxDoc)
                                 + ClassCount("adversative", lxDoc)
                                 + ClassCount("temporal", lxDoc)
                                 + ClassCount("additive", lxDoc)),
                    Len(lxDoc))
        /\ lxIndices["CNCAll"] =
               FSum(<<lxIndices["CNCCaus"], lxIndices["CNCLogic"], lxIndices["CNCADC"],
                      lxIndices["CNCTemp"], lxIndices["CNCAdd"]>>)
        /\ lxIndices["CNCCaus"] = Frac(Incidence * ClassCount("causal", lxDoc), Len(lxDoc))
        /\ lxIndices["CNCTemp"] = Frac(Incidence * ClassCount("temporal", lxDoc), Len(lxDoc))

\* 'Ya que además': 'ya que' is causal, its 'ya' temporal, 'además' additive
C12_Witness ==
    /\ lxOutcome = "returned"
    /\ lxDoc = <<"Ya", "que", "además">>
    /\ lxIndices["CNCCaus"] = Frac(Incidence, 3) /\ lxIndices["CNCTemp"] = Frac(Incidence, 3)
    /\ lxIndices["CNCAll"] = FInt(Incidence)

\* C13: the additive tagger tags the runs that spell one of the 21 listed
\* expressions (resolved by filter_spans), and nothing else.
C13_AdditiveLexiconIsTheListedExpressions ==
    lxTagOutcome # "none" =>
        /\ lxTagOutcome = "ok"
        /\ lxSpans["additive"] = FilterSpans(PhraseMatcher(AdditiveExpressions, lxDoc))

\* the names whose values go to the classifier
PredictKeys == IF apiPredictArgs.classifier = "None" THEN classifier_indices
               ELSE apiPredictArgs.indices

\* C14: what predict_text_category hands on for prediction holds at position
\* k the computed value of the k-th index name (the 48 fixed names for the
\* default classifier, the caller's names for a custom one); it went through
\* the default scaler on the default path, and on the custom path through
\* the custom scaler exactly when one was given.
C14_FeatureVectorFollowsTheIndexNames ==
    (apiOp = "predict" /\ apiOutcome = "returned") =>
        /\ Len(apiFeatures.values) = Len(PredictKeys)
        /\ \A i \in 1..Len(apiDicts) :
               apiDicts[i] = Calculate(Families[i], apiText, apiWorkers, apiCalls[i].args).val
        /\ \A k \in 1..Len(PredictKeys) :
               \E i \in 1..Len(apiDicts) :
                   /\ PredictKeys[k] \in DOMAIN apiDicts[i]
                   /\ apiFeatures.values[k] = apiDicts[i][PredictKeys[k]]
        /\ apiPredictArgs.classifier = "None" => apiFeatures.scaled = "default"
        /\ apiPredictArgs.classifier # "None" =>
               /\ apiFeatures.scaled \in {"none", "custom"}
               /\ apiFeatures.scaled = "custom" <=> apiPredictArgs.scaler # "None"

C14_Witness ==
    /\ apiOp = "predict" /\ apiOutcome = "returned"
    /\ apiPredictArgs.classifier = "classifier" /\ apiPredictArgs.scaler = "scaler"
    /\ apiFeatures.scaled = "custom"
    /\ Len(apiFeatures.values) = 2 /\ apiFeatures.values[1] # apiFeatures.values[2]

\* C15: with a custom classifier, predict_text_category raises ValueError
\* when the classifier has no predict method, when no index names are given
\* or when the scaler given has no transform method, and it does so before
\* any index of the text is calculated; a custom classifier with index names
\* and no scaler is not turned away.
C15_CustomClassifierArgumentsAreChecked ==
    (apiOp = "predict" /\ apiPredictArgs.classifier # "None") =>
        /\ (\/ apiPredictArgs.classifier = "no predict"
            \/ apiPredictArgs.indices = <<>>
            \/ apiPredictArgs.scaler = "no transform") =>
               apiOutcome = "ValueError" /\ apiCalls = <<>> /\ apiDicts = <<>>
        /\ (/\ apiPredictArgs.classifier = "classifier"
            /\ apiPredictArgs.indices # <<>>
            /\ apiPredictArgs.scaler = "None"
            /\ ~InvalidWorkers(apiWorkers)
            /\ apiPc = "done") => apiCalls # <<>>

C15_Witness ==
    /\ apiOp = "predict" /\ ~InvalidWorkers(apiWorkers)
    /\ apiPredictArgs.classifier = "classifier" /\ apiPredictArgs.indices # <<>>
    /\ apiPredictArgs.scaler = "no transform"
    /\ apiOutcome = "ValueError" /\ apiCalls = <<>>

\* the alphabetic tokens of a sentence with POS NOUN, lowercased
NounForms(sent) ==
    {Lower(sent.tokens[i].text) :
        i \in {j \in 1..Len(sent.tokens) :
                  sent.tokens[j].is_alpha /\ sent.tokens[j].pos = "NOUN"}}

\* C16: the noun overlap of (prev, cur) is 1 exactly when an alphabetic NOUN
\* token of cur has a lowercased form among the nouns of prev, else 0; CRFNO1
\* of the text of the two sentences is that value, and it is 0 for
\* 'El perro corre. El gato también corre.', whose only shared word is a verb.
C16_NounOverlapIsASharedNoun ==
    /\ coOverlap # NoOverlap =>
           coOverlap.noun = IF NounForms(coCur) \cap NounForms(coPrev) # {}
                            THEN FInt(1) ELSE FInt(0)
    /\ coAdjacent # NoOverlap =>
           /\ coAdjacent.noun = IF NounForms(coCur) \cap NounForms(coPrev) # {}
                                 THEN FInt(1) ELSE FInt(0)
           /\ (coPrev = PerroCorre /\ coCur = GatoCorre) => coAdjacent.noun = FInt(0)

C16_Witness ==
    /\ coPrev = PerroCorre /\ coCur = GatoCorre
    /\ coOverlap.noun = FInt(0) /\ coAdjacent.noun = FInt(0)

\* the content words of a sentence
ContentWords(sent) == SelectSeq(sent.tokens, is_content_word)

\* 2 x (content words of cur with a lowercased form among those of prev) /
\* (content words of prev + content words of cur), 0 without content words
ContentWordProportion(prev, cur) ==
    LET shared == {i \in 1..Len(ContentWords(cur)) :
                      \E j \in 1..Len(ContentWords(prev)) :
                          Lower(ContentWords(cur)[i].text) = Lower(ContentWords(prev)[j].text)}
        total == Len(ContentWords(prev)) + Len(ContentWords(cur))
    IN  IF total = 0 THEN FInt(0) ELSE Frac(2 * Cardinality(shared), total)

\* C20: the content word overlap of (prev, cur) is twice the number of
\* content word tokens of cur whose lowercased form is a content word of
\* prev, over the number of content words of both; it is 0, with nothing
\* raised, when the two have no content word.
C20_ContentWordOverlapIsTheProportion ==
    /\ coOverlap # NoOverlap =>
           coOverlap.content_word = ContentWordProportion(coPrev, coCur)
    /\ coAdjacent # NoOverlap =>
           coAdjacent.content_word = ContentWordProportion(coPrev, coCur)

C20_Witness ==
    /\ coOverlap # NoOverlap /\ coAdjacent # NoOverlap
    /\ coPrev.tokens = <<tPerro, tVe>> /\ coCur.tokens = <<tPerroCap, tEl>>
    /\ coOverlap.content_word = Frac(2, 3)

\* C17: when the sample of a descriptive metric has exactly one element (one
\* paragraph for DESPLd, one sentence for DESSLd, one word for DESWLltd and
\* DESWLsyd), the deviation written is exactly 0 and nothing is raised: the
\* population formula divides by n.
C17_DeviationOfOneElementIsZero ==
    (Ran("descriptive_indices") /\ Len(pDoc) > 0) =>
        LET words == doc_alpha_words_getter(pUpstream)
            des == pIndices.descriptive_indices
        IN  /\ Len(pUpstream.para_sentence_count) = 1 =>
                   "DESPLd" \in DOMAIN des /\ des["DESPLd"] = FInt(0)
            /\ Len(pIndices.sentences_with_content) = 1 =>
                   "DESSLd" \in DOMAIN des /\ des["DESSLd"] = FInt(0)
            /\ Len(words) = 1 =>
                   /\ "DESWLltd" \in DOMAIN des /\ des["DESWLltd"] = FInt(0)
                   /\ "DESWLsyd" \in DOMAIN des /\ des["DESWLsyd"] = FInt(0)

C17_Witness ==
    /\ Ran("descriptive_indices") /\ pOutcome = "ok"
    /\ Len(pUpstream.para_sentence_count) = 1
    /\ Len(pIndices.sentences_with_content) = 1
    /\ Len(doc_alpha_words_getter(pUpstream)) = 1
    /\ pIndices.descriptive_indices["DESWLltd"] = FInt(0)
    /\ pIndices.descriptive_indices["DESPLd"] = FInt(0)

\* an exposed span that wins over the candidate: it shares a token with it and
\* is longer, or as long and starting no later
WinsOver(e, c) ==
    /\ ~SpansDisjoint(c, e)
    /\ \/ SpanLen(e) > SpanLen(c)
       \/ SpanLen(e) = SpanLen(c) /\ e.start <= c.start

\* C19: overlap resolution keeps the longest span, ties going to the earliest
\* start: every candidate of a tagger that is not exposed shares a token with
\* an exposed span that is longer, or as long and starting no later; a
\* candidate that shares no token with another candidate is exposed.
C19_LongestThenEarliestIsKept ==
    tagger # "none" =>
        /\ \A c \in candidates \ exposed : \E e \in exposed : WinsOver(e, c)
        /\ \A c \in candidates :
               (\A d \in candidates \ {c} : SpansDisjoint(c, d)) => c \in exposed

C19_Witness ==
    /\ tagger = "additive connective tagger"
    /\ \E c \in candidates \ exposed : \E e \in exposed :
           ~SpansDisjoint(c, e) /\ SpanLen(e) > SpanLen(c) /\ c.start < e.start
    /\ \E c \in candidates \ exposed : \E e \in exposed :
           ~SpansDisjoint(c, e) /\ SpanLen(e) > SpanLen(c) /\ c.start > e.start

\* C18: a text longer than max_length is rejected with the error of the size
\* limit by every call of the analyzer, before anything of the text has been
\* computed, whatever the lengths of its paragraphs.
C18_LongTextIsRejectedBeforeAnyIndex ==
    TextLength(szParagraphs) > max_length =>
        /\ szComputed = <<>>
        /\ szPc = "done" => szOutcome = "ValueError"

\* the non-empty sentences of the document, in document order
NonEmptySentences == SelectSeq(prDoc, LAMBDA sent : sent.tokens # <<tSpace>>)

\* the places of the pairs (s_i, s_j), i < j, first by i and then by j
RECURSIVE PairsFrom(_, _, _)
PairsFrom(sentences, i, j) ==
    IF i >= Len(sentences) THEN <<>>
    ELSE IF j > Len(sentences) THEN PairsFrom(sentences, i + 1, i + 2)
    ELSE <<<<sentences[i].place, sentences[j].place>>>> \o PairsFrom(sentences, i, j + 1)

\* C21: with n non-empty sentences in document order, paragraph boundaries
\* not looked at, the adjacent analyzer calls the function on exactly the
\* n - 1 pairs (s_i, s_i+1) and the all-sentences analyzer on exactly the
\* n(n-1)/2 pairs (s_i, s_j), i < j, each once, the earlier sentence as prev,
\* and the list stored has one value per pair in that order.
C21_PairsAreAdjacentAndCombinations ==
    LET s == NonEmptySentences
        n == Len(s)
    IN  /\ prAdjacent.err = "none" =>
               /\ Len(prAdjacent.val) = IF n = 0 THEN 0 ELSE n - 1
               /\ \A i \in 1..(n - 1) : prAdjacent.val[i] = <<s[i].place, s[i + 1].place>>
        /\ prAll.err = "none" =>
               /\ 2 * Len(prAll.val) = n * (n - 1)
               /\ prAll.val = PairsFrom(s, 1, 2)
               /\ \A k \in 1..Len(prAll.val) : prAll.val[k][1] < prAll.val[k][2]
               /\ \A k \in 1..Len(prAll.val) : \A l \in 1..Len(prAll.val) :
                      k # l => prAll.val[k] # prAll.val[l]

C21_Witness ==
    /\ prAdjacent.err = "none" /\ prAll.err = "none"
    /\ Len(NonEmptySentences) = 3 /\ Len(prDoc) = 4
    /\ Len(prAdjacent.val) = 2 /\ Len(prAll.val) = 3
    /\ \E k \in 1..2 : NonEmptySentences[k].paragraph # NonEmptySentences[k + 1].paragraph

\* the pipes that write the annotations a pipe's __call__ reads: paragraphs,
\* non_empty_sentences, paragraph_count and sentence_count are written by the
\* paragraphizer, alpha_words and its counts by alphanumeric_word_identifier,
\* syllable_count by the syllablelizer, pos_ by the morphologizer
upstream_pipes_read(pipe) ==
    CASE pipe = "paragraphizer" -> {}
      [] pipe = "alphanumeric_word_identifier" -> {"paragraphizer"}
      [] pipe = "syllablelizer" -> {"alphanumeric_word_identifier"}
      [] pipe = "informative_word_tagger" -> {"paragraphizer", "alphanumeric_word_identifier"}
      [] pipe = "descriptive_indices" ->
            {"alphanumeric_word_identifier", "paragraphizer", "syllablelizer"}
      [] pipe = "word_information_indices" ->
            {"alphanumeric_word_identifier", "informative_word_tagger"}
      [] pipe = "readability_indices" -> {"descriptive_indices"}
      [] pipe = "content_word_identifier" -> {"paragraphizer", "morphologizer"}
      [] pipe = "cohesion_words_tokenizer" ->
            {"paragraphizer", "alphanumeric_word_identifier", "content_word_identifier"}
      [] OTHER -> {}

\* C22: a pipe that reads annotations written by an upstream pipe is only
\* constructed on a pipeline that holds every pipe it reads from (its
\* constructor raises AttributeError otherwise), so a pipe is never called on
\* a document before the pipes that write what it reads.
C22_ReadersAreBuiltAfterTheirWriters ==
    /\ \A i \in 1..Len(nlpPipeNames) :
           upstream_pipes_read(nlpPipeNames[i]) \subseteq {nlpPipeNames[j] : j \in 1..(i - 1)}
    /\ \A i \in 1..Len(nlpCalled) : upstream_pipes_read(nlpCalled[i]) \subseteq CalledBefore(i)

\* the words of the sentence that come before its first token with
\* dependency ROOT and part of speech VERB or AUX, all its words without one
WordsBeforeRootVerb(tokens) ==
    LET roots == {i \in 1..Len(tokens) : IsMainVerb(tokens[i])}
        first == IF roots = {} THEN Len(tokens) + 1
                 ELSE CHOOSE i \in roots : \A j \in roots : i <= j
    IN  Len(SelectSeq(SubSeq(tokens, 1, first - 1), is_word))

\* C23: the count of words before the main verb of a non-empty sentence is
\* the number of alphabetic tokens before its first token with dependency
\* ROOT and part of speech VERB or AUX, the number of all its alphabetic
\* tokens when it has none, and so lies between 0 and its word count.
C23_WordsBeforeTheFirstRootVerb ==
    /\ snBeforePipe # NotCalled =>
           /\ snBeforePipe.val = WordsBeforeRootVerb(snTokens)
           /\ 0 <= snBeforePipe.val /\ snBeforePipe.val <= Len(alpha_words_of(snTokens))
    /\ snBeforeFunction # NotCalled =>
           /\ snBeforeFunction.val = WordsBeforeRootVerb(snTokens)
           /\ 0 <= snBeforeFunction.val
           /\ snBeforeFunction.val <= Len(alpha_words_of(snTokens))

\* C24: WRDVERB is 1000 x (alphabetic tokens with part of speech VERB) /
\* word count, the verbs counted being exactly the alphabetic tokens with
\* part of speech VERB.
C24_VerbsAreTheAlphabeticVerbTokens ==
    LET verbs == SelectSeq(snTokens, LAMBDA t : t.is_alpha /\ t.pos = "VERB")
        words == Len(alpha_words_of(snTokens))
        WRDVERB == FMul(Frac(Len(verbs), words), FInt(Incidence))
    IN  /\ snVerbs # NotCalled => snVerbs.val = verbs
        /\ (snWRDVERB # NotCalled /\ words > 0) => snWRDVERB = Ok(WRDVERB)
        /\ (snVerbIncidence # NotCalled /\ words > 0) => snVerbIncidence = Ok(WRDVERB)

\* what the counter function of a getter finds in the text
FeatureCountOf(getter, text) ==
    SumOverParagraphs(
        Map(LAMBDA doc :
                CASE getter = "get_verb_incidence" ->
                         Len(SelectSeq(DocTokens(doc), LAMBDA t : is_word(t) /\ t.pos = "VERB"))
                  [] getter = "get_causal_connectives_incidence" -> ConnectiveCount(doc, "causal")
                  [] getter = "get_noun_phrase_density" -> PhraseCount(doc, "noun_phrases"),
            split_text_into_paragraphs(text)))

\* C25: a word_count given to an incidence or density getter is the
\* denominator, the result being (feature count / word_count) x 1000
\* whatever the number of words of the text is; the words of the text are
\* counted only when word_count is None.
C25_SuppliedWordCountIsTheDenominator ==
    \A getter \in IncidenceGetters :
        (wcResults[getter] # NotCalled /\ ~TextIsEmpty(wcText) /\ wcWordCount # NoneValue) =>
            wcResults[getter] =
                Ok(FMul(FDiv(FeatureCountOf(getter, wcText), wcWordCount), FInt(Incidence)))

\* C26: the content word overlap of a pair of sentences is a proportion:
\* whatever content words the two sentences repeat, the value of
\* analyze_content_word_overlap lies in [0, 1], and so does the mean CRFCWO1
\* over the adjacent pairs of the text.
C26_ContentWordOverlapIsAProportion ==
    /\ coOverlap # NoOverlap => InUnitInterval(coOverlap.content_word)
    /\ (coAdjacent # NoOverlap /\ coAdjacent.content_word # NoneValue) =>
           InUnitInterval(coAdjacent.content_word)

\* the pieces of the text between its delimiters that hold something else
\* than whitespace
PiecesWithContent(text) == SelectSeq(text, LAMBDA piece : piece.sents # <<>>)

\* C27: no string that split_text_into_paragraphs returns has length 0, also
\* when a piece between two delimiters is only whitespace, so DESPC counts
\* the paragraphs with content and no other.
C27_NoEmptyParagraphIsCounted ==
    /\ wcResults["split_text_into_paragraphs"] # NotCalled =>
           \A i \in 1..Len(wcResults["split_text_into_paragraphs"].val) :
               wcResults["split_text_into_paragraphs"].val[i] # <<>>
    /\ wcResults["get_paragraph_count_from_text"].err = "none" =>
           wcResults["get_paragraph_count_from_text"].val = FInt(Len(PiecesWithContent(wcText)))

\* C28: when the descriptive indices pipe has run, the sample averaged for
\* DESSL, one alpha_words_count per sentence of sentences_with_content, has
\* DESSC elements and sums to DESWC, so that DESSL x DESSC = DESWC.
C28_SentenceFiguresAgree ==
    ("descriptive_indices" \in Range(pRan) /\ pOutcome = "ok") =>
        LET d == pIndices.descriptive_indices
            sample == Map(LAMBDA sent : FInt(pUpstream.alpha_words_count[sent]),
                          pIndices.sentences_with_content)
        IN  /\ FInt(Len(sample)) = d["DESSC"]
            /\ FSum(sample) = d["DESWC"]
            /\ FMul(d["DESSL"], d["DESSC"]) = d["DESWC"]

\* C29: in what calculate_descriptive_indices_for_one_text returns, DESSC is
\* the sum over the paragraphs of the sentence counts averaged for DESPL, so
\* that DESPL x DESPC = DESSC.
C29_SentenceCountAgreesWithParagraphLengths ==
    dsIndices.err = "none" =>
        LET d == dsIndices.val
            lengths == Map(LAMBDA doc : Len(split_doc_into_sentences(doc)),
                           split_text_into_paragraphs(dsText))
        IN  /\ d["DESSC"] = FInt(SumInts(lengths))
            /\ d["DESPC"] = FInt(Len(lengths))
            /\ FMul(d["DESPL"], d["DESPC"]) = d["DESSC"]

C29_Witness ==
    /\ dsIndices.err = "none"
    /\ Len(dsText) = 3 /\ dsText[2] = BlankPiece
    /\ Len(dsText[1].sents) = 2 /\ Len(dsText[3].sents) = 1
    /\ dsIndices.val["DESSC"] = FInt(3) /\ dsIndices.val["DESPL"] = FInt(1)

\* C30: for every pair of sentences whose words and sets the pipes stored
\* from the tokens, each of the five analyzers of overlap_analyzers returns
\* what the analyzer of the same name in referential_cohesion_indices
\* returns for the same two sentences.
C30_SetBasedAnalyzersAgreeWithPerCall ==
    (coOverlap # NoOverlap /\ coAdjacent # NoOverlap) =>
        \A kind \in OverlapKinds : coOverlap[kind] = coAdjacent[kind]

\* the two generations agree on the four other analyzers, and on the
\* argument overlap of sentences whose tags spell the features
AnalyzersAgreeButOnCoarsePronouns ==
    (coOverlap # NoOverlap /\ coAdjacent # NoOverlap) =>
        /\ \A kind \in OverlapKinds \ {"argument"} : coOverlap[kind] = coAdjacent[kind]
        /\ (tEllaCoarse \notin Range(coPrev.tokens) \cup Range(coCur.tokens)) =>
               coOverlap.argument = coAdjacent.argument

====
